---------------------------- MODULE Spec2Model ----------------------------
(***************************************************************************)
(* Import / correction pipeline of halfs-app.                              *)
(*                                                                         *)
(* The pages (HalfsBasePage, CybersBasePage, the first CyberLivePage) and  *)
(* the axios client are modelled from the JavaScript sources.  The FastAPI *)
(* backend the client talks to is not among the sources; its endpoints are *)
(* modelled from the specification (sections 4 and 6) and are marked so in *)
(* the comments ("backend, from the specification").                       *)
(*                                                                         *)
(* Strings.  A string is a sequence of atoms.  An atom is either one of    *)
(* the three whitespace characters the code distinguishes (space, tab,     *)
(* line feed) or an unbreakable word ("21.02.2026", "EL", "20").  trim,    *)
(* split and substring replacement are computed on these sequences.        *)
(* JavaScript's null, undefined and '' are all falsy and are all written   *)
(* Null (the empty sequence): the handlers only ever test them with `!`.   *)
(***************************************************************************)
EXTENDS Integers, Sequences, FiniteSets, TLC

\* ------------------------------------------------------------------ bounds

\* Ids the store may hand out before the model stops accepting commits.
MaxId == 2
\* HTTP calls that may be in flight at once.
MaxCalls == 2

\* ----------------------------------------------------------------- strings

SP == " "
TAB == "\t"
NL == "\n"
Null == << >>

\* String.prototype.trim's whitespace, restricted to the atoms of the model.
IsWs(a) == a \in {SP, TAB, NL}

RECURSIVE TrimStart(_)
TrimStart(s) ==
    IF s = << >> THEN << >>
    ELSE IF IsWs(Head(s)) THEN TrimStart(Tail(s)) ELSE s

RECURSIVE TrimEnd(_)
TrimEnd(s) ==
    IF s = << >> THEN << >>
    ELSE IF IsWs(s[Len(s)]) THEN TrimEnd(SubSeq(s, 1, Len(s) - 1)) ELSE s

\* String.prototype.trim
Trim(s) == TrimEnd(TrimStart(s))

\* String.prototype.split(sep) for a one-character separator: always at
\* least one piece, empty pieces kept.
RECURSIVE SplitAcc(_, _, _)
SplitAcc(s, sep, cur) ==
    IF s = << >> THEN << cur >>
    ELSE IF Head(s) = sep THEN << cur >> \o SplitAcc(Tail(s), sep, << >>)
    ELSE SplitAcc(Tail(s), sep, Append(cur, Head(s)))

Split(s, sep) == SplitAcc(s, sep, << >>)

\* Array.prototype.filter(Boolean) on an array of strings: '' is dropped.
RECURSIVE FilterNonEmpty(_)
FilterNonEmpty(xs) ==
    IF xs = << >> THEN << >>
    ELSE IF Head(xs) = << >> THEN FilterNonEmpty(Tail(xs))
    ELSE << Head(xs) >> \o FilterNonEmpty(Tail(xs))

\* line.split('\t').map((c) => c.trim()).filter(Boolean)
Cells(line) ==
    LET parts == Split(line, TAB)
    IN FilterNonEmpty([i \in 1..Len(parts) |-> Trim(parts[i])])

\* Does `find` occur in s at position i?
OccursAt(s, find, i) ==
    /\ i + Len(find) - 1 <= Len(s)
    /\ SubSeq(s, i, i + Len(find) - 1) = find

Contains(s, find) == \E i \in 1..Len(s) : OccursAt(s, find, i)

\* Replace every occurrence of `find` (non-empty), left to right.
RECURSIVE ReplaceAll(_, _, _)
ReplaceAll(s, find, repl) ==
    IF s = << >> \/ find = << >> THEN s
    ELSE IF OccursAt(s, find, 1)
         THEN repl \o ReplaceAll(SubSeq(s, Len(find) + 1, Len(s)), find, repl)
         ELSE << Head(s) >> \o ReplaceAll(Tail(s), find, repl)

SeqRange(xs) == {xs[i] : i \in 1..Len(xs)}


\* ----------------------------------------------------------------- schemas

\* The half-score columns, in paste order.
HalfColumns ==
    << "date", "tournament", "team_home", "team_away",
       "q1_home", "q1_away", "q2_home", "q2_away",
       "q3_home", "q3_away", "q4_home", "q4_away", "ot_home", "ot_away" >>

\* The box-score columns of the Cyber base.
CyberColumns ==
    << "date", "tournament", "team", "home_away",
       "two_pt_made", "two_pt_attempt", "three_pt_made", "three_pt_attempt",
       "fta_made", "fta_attempt", "off_rebound", "turnovers", "controls",
       "points", "opponent", "attak_kef", "status" >>

\* The text columns of each schema; every other column is numeric.
TextColumns == {"date", "tournament", "team_home", "team_away",
                "team", "home_away", "opponent", "status"}

\* --------------------------------------- backend, from the specification

\* Lexing of the number words of the model (a word that is not listed does
\* not parse as a number).
NumLex ==
    ("20" :> 20) @@ ("18" :> 18) @@ ("22" :> 22) @@ ("19" :> 19) @@
    ("0" :> 0) @@ ("-5" :> (0 - 5))

IsNumber(cell) == Len(cell) = 1 /\ cell[1] \in DOMAIN NumLex

NumberOf(cell) == NumLex[cell[1]]

\* Lexing of the date words of the model: separator, the three numeric
\* components in written order, and the number of digits of the last one.
DateLex ==
    ("21.02.2026" :> [sep |-> ".", a |-> 21, b |-> 2, c |-> 2026, first4 |-> FALSE, last4 |-> TRUE]) @@
    ("02/21/26"   :> [sep |-> "/", a |-> 2, b |-> 21, c |-> 26, first4 |-> FALSE, last4 |-> FALSE]) @@
    ("2026-02-21" :> [sep |-> "-", a |-> 2026, b |-> 2, c |-> 21, first4 |-> TRUE, last4 |-> FALSE]) @@
    ("03.04.25"   :> [sep |-> ".", a |-> 3, b |-> 4, c |-> 25, first4 |-> FALSE, last4 |-> FALSE]) @@
    ("03.04.2025" :> [sep |-> ".", a |-> 3, b |-> 4, c |-> 2025, first4 |-> FALSE, last4 |-> TRUE]) @@
    ("04.03.2025" :> [sep |-> ".", a |-> 4, b |-> 3, c |-> 2025, first4 |-> FALSE, last4 |-> TRUE]) @@
    ("31.13.2026" :> [sep |-> ".", a |-> 31, b |-> 13, c |-> 2026, first4 |-> FALSE, last4 |-> TRUE])

ValidDMY(d, m, y) == d \in 1..31 /\ m \in 1..12 /\ y \in 1900..2100

\* The canonical DD.MM.YYYY word of a date, when the model has one.
CanonicalWord(d, m, y) ==
    LET ws == {w \in DOMAIN DateLex :
                   /\ DateLex[w].sep = "." /\ DateLex[w].last4
                   /\ DateLex[w].a = d /\ DateLex[w].b = m /\ DateLex[w].c = y}
    IN IF ws = {} THEN Null ELSE << CHOOSE w \in ws : TRUE >>

\* Variant: an ambiguous 2-digit-year date is read day-first.
ParseDateGuessesDayFirst(cell) ==
    IF Len(cell) # 1 \/ cell[1] \notin DOMAIN DateLex THEN Null
    ELSE LET p == DateLex[cell[1]]
         IN IF p.last4
            THEN IF ValidDMY(p.a, p.b, p.c) THEN CanonicalWord(p.a, p.b, p.c) ELSE Null
            ELSE IF p.first4
            THEN IF ValidDMY(p.c, p.b, p.a) THEN CanonicalWord(p.c, p.b, p.a) ELSE Null
            ELSE IF ValidDMY(p.a, p.b, 2000 + p.c)
            THEN CanonicalWord(p.a, p.b, 2000 + p.c)
            ELSE IF p.b > 12 /\ ValidDMY(p.b, p.a, 2000 + p.c)
            THEN CanonicalWord(p.b, p.a, 2000 + p.c)
            ELSE Null

\* Variant: without the month-first reading of a 2-digit-year date.
ParseDateDayFirstOnly(cell) ==
    IF Len(cell) # 1 \/ cell[1] \notin DOMAIN DateLex THEN Null
    ELSE LET p == DateLex[cell[1]]
         IN IF p.last4
            THEN IF ValidDMY(p.a, p.b, p.c) THEN CanonicalWord(p.a, p.b, p.c) ELSE Null
            ELSE IF p.first4
            THEN IF ValidDMY(p.c, p.b, p.a) THEN CanonicalWord(p.c, p.b, p.a) ELSE Null
            ELSE IF p.a > 12 /\ ValidDMY(p.a, p.b, 2000 + p.c)
            THEN CanonicalWord(p.a, p.b, 2000 + p.c)
            ELSE Null

\* Field Coercer, date: canonical first, then ISO, then the 2-digit-year
\* legacy forms; a 2-digit-year date whose two leading components are both
\* at most 12 is ambiguous and is not resolved.  Null when nothing parses.
ParseDate(cell) ==
    IF Len(cell) # 1 \/ cell[1] \notin DOMAIN DateLex THEN Null
    ELSE LET p == DateLex[cell[1]]
         IN IF p.last4
            THEN IF ValidDMY(p.a, p.b, p.c) THEN CanonicalWord(p.a, p.b, p.c) ELSE Null
            ELSE IF p.first4
            THEN IF ValidDMY(p.c, p.b, p.a) THEN CanonicalWord(p.c, p.b, p.a) ELSE Null
            ELSE IF p.a > 12 /\ ValidDMY(p.a, p.b, 2000 + p.c)
            THEN CanonicalWord(p.a, p.b, 2000 + p.c)
            ELSE IF p.b > 12 /\ ValidDMY(p.b, p.a, 2000 + p.c)
            THEN CanonicalWord(p.b, p.a, 2000 + p.c)
            ELSE Null

\* Row Validator: the fewest cells a half-score row may have.
MinCells == 8

\* Row Tokenizer: the lines of the text with their cells, blank lines kept
\* (with no cells) so that a row keeps its position in the paste.
Tokenize(text) ==
    LET lines == Split(text, NL)
    IN [i \in 1..Len(lines) |-> Cells(lines[i])]

\* Variant: a row must have a cell for every column.
ValidateRowNeedsAllCells(cells) ==
    LET numeric == {k \in 1..Len(HalfColumns) : HalfColumns[k] \notin TextColumns}
    IN IF Len(cells) < Len(HalfColumns) THEN "too few columns"
       ELSE IF ParseDate(cells[1]) = Null THEN "invalid date"
       ELSE IF \E k \in numeric : ~IsNumber(cells[k]) THEN "invalid number"
       ELSE IF \E k \in numeric : NumberOf(cells[k]) < 0 THEN "negative number"
       ELSE "ok"

\* Field Coercer + Row Validator on one row of cells.
ValidateRow(cells) ==
    LET n == IF Len(cells) < Len(HalfColumns) THEN Len(cells) ELSE Len(HalfColumns)
        numeric == {k \in 1..n : HalfColumns[k] \notin TextColumns}
    IN IF Len(cells) < MinCells THEN "too few columns"
       ELSE IF ParseDate(cells[1]) = Null THEN "invalid date"
       ELSE IF \E k \in numeric : ~IsNumber(cells[k]) THEN "invalid number"
       ELSE IF \E k \in numeric : NumberOf(cells[k]) < 0 THEN "negative number"
       ELSE "ok"

\* The candidate record (no id yet) of an accepted row; an absent trailing
\* score defaults to zero.
CandidateOf(cells) ==
    [c \in SeqRange(HalfColumns) |->
        LET k == CHOOSE j \in 1..Len(HalfColumns) : HalfColumns[j] = c
        IN IF c = "date" THEN ParseDate(cells[1])
           ELSE IF c \in TextColumns THEN cells[k]
           ELSE IF k <= Len(cells) THEN NumberOf(cells[k])
           ELSE 0]

\* Tokenizer -> Coercer -> Validator over the whole text, row by row.
RECURSIVE ParseRows(_, _)
ParseRows(rows, i) ==
    IF i > Len(rows) THEN [parsed |-> << >>, errors |-> << >>]
    ELSE LET rest == ParseRows(rows, i + 1)
             verdict == ValidateRow(rows[i])
         IN IF rows[i] = << >> THEN rest
            ELSE IF verdict = "ok"
            THEN [parsed |-> << CandidateOf(rows[i]) >> \o rest.parsed,
                  errors |-> rest.errors]
            ELSE [parsed |-> rest.parsed,
                  errors |-> << [line |-> i, reason |-> verdict] >> \o rest.errors]

ParseText(text) == ParseRows(Tokenize(text), 1)

\* Preview Assembler.
PreviewReport(text) ==
    LET r == ParseText(text)
    IN [parsed_count |-> Len(r.parsed), error_count |-> Len(r.errors),
        parsed_rows |-> r.parsed, errors |-> r.errors]

WithId(rec, id) == rec @@ ("id" :> id)

WithoutId(rec) == [c \in (DOMAIN rec) \ {"id"} |-> rec[c]]

\* Commit Engine: every accepted row is inserted under the next free id.
CommitRows(text, db) ==
    LET r == ParseText(text)
        k == Len(r.parsed)
    IN [db |-> [records |-> db.records \cup
                             {WithId(r.parsed[j], db.nextId + j - 1) : j \in 1..k},
                nextId |-> db.nextId + k],
        data |-> [imported |-> k, errors |-> r.errors]]

\* The box-score schema: a row has a cell for every column.
CyberValidateRow(cells) ==
    LET numeric == {k \in 1..Len(CyberColumns) : CyberColumns[k] \notin TextColumns}
    IN IF Len(cells) < Len(CyberColumns) THEN "too few columns"
       ELSE IF ParseDate(cells[1]) = Null THEN "invalid date"
       ELSE IF \E k \in numeric : ~IsNumber(cells[k]) THEN "invalid number"
       ELSE IF \E k \in numeric : NumberOf(cells[k]) < 0 THEN "negative number"
       ELSE "ok"

CyberCandidateOf(cells) ==
    [c \in SeqRange(CyberColumns) |->
        LET k == CHOOSE j \in 1..Len(CyberColumns) : CyberColumns[j] = c
        IN IF c = "date" THEN ParseDate(cells[1])
           ELSE IF c \in TextColumns THEN cells[k]
           ELSE NumberOf(cells[k])]

RECURSIVE CyberParseRows(_, _)
CyberParseRows(rows, i) ==
    IF i > Len(rows) THEN [parsed |-> << >>, errors |-> << >>]
    ELSE LET rest == CyberParseRows(rows, i + 1)
             verdict == CyberValidateRow(rows[i])
         IN IF rows[i] = << >> THEN rest
            ELSE IF verdict = "ok"
            THEN [parsed |-> << CyberCandidateOf(rows[i]) >> \o rest.parsed,
                  errors |-> rest.errors]
            ELSE [parsed |-> rest.parsed,
                  errors |-> << [line |-> i, reason |-> verdict] >> \o rest.errors]

\* Commit Engine on the box-score collection.
CyberCommitRows(text, db) ==
    LET r == CyberParseRows(Tokenize(text), 1)
        k == Len(r.parsed)
    IN [db |-> [records |-> db.records \cup
                             {WithId(r.parsed[j], db.nextId + j - 1) : j \in 1..k},
                nextId |-> db.nextId + k],
        data |-> [imported |-> k, errors |-> r.errors]]

\* Tournament Merge.
\* Variant: records that already carry the target are dropped as duplicates.
MergeRecordsDropsEqual(sources, target, db) ==
    LET hit == {r \in db.records : r.tournament \in sources}
    IN [db |-> [db EXCEPT !.records =
                   {[r EXCEPT !.tournament = target]
                      : r \in {h \in hit : h.tournament # target}}
                   \cup (db.records \ hit)],
        data |-> [updated |-> Cardinality(hit)]]

MergeRecords(sources, target, db) ==
    LET hit == {r \in db.records : r.tournament \in sources}
    IN [db |-> [db EXCEPT !.records =
                   {IF r \in hit THEN [r EXCEPT !.tournament = target] ELSE r
                      : r \in db.records}],
        data |-> [updated |-> Cardinality(hit)]]

\* Scoped Replace: the text field the replacement is made in.
ReplaceColumn(coll) == IF coll = "halfs" THEN "team_home" ELSE "team"

ReplaceRecords(coll, find, repl, scope, tournament, db) ==
    LET col == ReplaceColumn(coll)
        hit == {r \in db.records :
                   /\ scope = "tournament" => r.tournament = tournament
                   /\ Contains(r[col], find)}
    IN [db |-> [db EXCEPT !.records =
                   {IF r \in hit THEN [r EXCEPT ![col] = ReplaceAll(r[col], find, repl)]
                    ELSE r : r \in db.records}],
        data |-> [replaced |-> Cardinality(hit)]]

\* A date is canonical when it is the DD.MM.YYYY word of a valid date.
IsCanonicalDate(date) == ParseDate(date) # Null /\ ParseDate(date) = date

\* Variant: the count is of the records found not canonical, rewritten or
\* not.
NormalizeRecordsCountsScanned(db) ==
    LET hit == {r \in db.records :
                   ParseDate(r.date) # Null /\ ParseDate(r.date) # r.date}
    IN [db |-> [db EXCEPT !.records =
                   {IF r \in hit THEN [r EXCEPT !.date = ParseDate(r.date)] ELSE r
                      : r \in db.records}],
        data |-> [updated |->
                     Cardinality({r \in db.records : ~IsCanonicalDate(r.date)})]]

\* Variant: canonical records are written again and counted.
NormalizeRecordsReparsesAll(db) ==
    LET hit == {r \in db.records : ParseDate(r.date) # Null}
    IN [db |-> [db EXCEPT !.records =
                   {IF r \in hit THEN [r EXCEPT !.date = ParseDate(r.date)] ELSE r
                      : r \in db.records}],
        data |-> [updated |-> Cardinality(hit)]]

\* Date Normalizer: every stored date that is not canonical and that the
\* Field Coercer resolves is rewritten to its canonical form and counted;
\* canonical dates, and dates the coercer does not resolve, are left as
\* they are.
NormalizeRecords(db) ==
    LET hit == {r \in db.records :
                   ParseDate(r.date) # Null /\ ParseDate(r.date) # r.date}
    IN [db |-> [db EXCEPT !.records =
                   {IF r \in hit THEN [r EXCEPT !.date = ParseDate(r.date)] ELSE r
                      : r \in db.records}],
        data |-> [updated |-> Cardinality(hit)]]

\* Variant: a text field is stored as typed, blank or not.
CoerceFieldAcceptsBlank(field, value) ==
    IF field = "date"
    THEN [ok |-> ParseDate(Trim(value)) # Null, value |-> ParseDate(Trim(value))]
    ELSE IF field \in TextColumns
    THEN [ok |-> TRUE, value |-> Trim(value)]
    ELSE [ok |-> IsNumber(Trim(value)) /\ NumberOf(Trim(value)) >= 0,
          value |-> IF IsNumber(Trim(value)) THEN NumberOf(Trim(value)) ELSE 0]

\* Field Coercer + Row Validator on one field of a stored record.
CoerceField(field, value) ==
    IF field = "date"
    THEN [ok |-> ParseDate(Trim(value)) # Null, value |-> ParseDate(Trim(value))]
    ELSE IF field \in TextColumns
    THEN [ok |-> Trim(value) # << >>, value |-> Trim(value)]
    ELSE [ok |-> IsNumber(Trim(value)) /\ NumberOf(Trim(value)) >= 0,
          value |-> IF IsNumber(Trim(value)) THEN NumberOf(Trim(value)) ELSE 0]

\* Single-field edit: the record with the id gets the coerced value.
UpdateRecord(id, field, value, db) ==
    [db |-> [db EXCEPT !.records =
                {IF r.id = id THEN [r EXCEPT ![field] = CoerceField(field, value).value]
                 ELSE r : r \in db.records}],
     data |-> [id |-> id, field |-> field, value |-> CoerceField(field, value).value]]

\* Delete by ids and delete all: the ids are not handed out again.
DeleteRecords(ids, db) ==
    [db |-> [db EXCEPT !.records = {r \in db.records : r.id \notin ids}],
     data |-> [deleted |-> Cardinality({r \in db.records : r.id \in ids})]]

\* Variant: an emptied collection starts numbering again.
ClearRecordsResetsIds(db) ==
    [db |-> [records |-> {}, nextId |-> 1],
     data |-> [deleted |-> Cardinality(db.records)]]

ClearRecords(db) ==
    [db |-> [db EXCEPT !.records = {}],
     data |-> [deleted |-> Cardinality(db.records)]]

\* The id a path segment names, 0 when it names none.
IdOfSegment(seg, db) ==
    LET ids == {k \in 1..db.nextId : ToString(k) = seg}
    IN IF ids = {} THEN 0 ELSE CHOOSE k \in ids : TRUE

\* The live list: a record is stored as posted, under a fresh id.
AddLiveRecord(match, db) ==
    LET stored == WithId(match, db.nextId)
    IN [db |-> [records |-> db.records \cup {stored}, nextId |-> db.nextId + 1],
        data |-> stored]

\* Records as a list, in id order.
RECURSIVE SortedById(_)
SortedById(records) ==
    IF records = {} THEN << >>
    ELSE LET first == CHOOSE r \in records : \A q \in records : r.id <= q.id
         IN << first >> \o SortedById(records \ {first})

\* list(filter) and distinctTournaments().
ListRecords(tournament, db) ==
    IF tournament = Null THEN db.records
    ELSE {r \in db.records : r.tournament = tournament}

DistinctTournaments(db) == {r.tournament : r \in db.records}


\* Is the request's text blank?  (request-level input error)
BlankText(text) == Trim(text) = << >>

\* The endpoints.  A url is the sequence of its path segments after /api;
\* only the collection of the mounted page is modelled, so a request is
\* routed to an operation of that one collection.
RouteOf(req) ==
    LET tail == SubSeq(req.url, 2, Len(req.url))
    IN IF req.method = "GET" /\ tail = << "matches" >> THEN "list"
       ELSE IF req.method = "GET" /\ tail = << "tournaments" >> THEN "tournaments"
       ELSE IF req.method = "GET" /\ tail = << "statistics" >> THEN "statistics"
       ELSE IF req.method = "GET" /\ tail = << "summary" >> THEN "summary"
       ELSE IF req.method = "POST" /\ tail = << "matches", "preview" >> THEN "preview"
       ELSE IF req.method = "POST" /\ tail = << "matches", "import" >> THEN "import"
       ELSE IF req.method = "POST" /\ tail = << "matches", "replace" >> THEN "replace"
       ELSE IF req.method = "POST" /\ tail = << "tournaments", "merge" >> THEN "merge"
       ELSE IF req.method = "POST" /\ tail = << "matches", "normalize-dates" >>
       THEN "normalize"
       ELSE IF req.method = "PATCH" /\ Len(tail) = 2 /\ tail[1] = "matches" THEN "update"
       ELSE IF req.method = "DELETE" /\ tail = << "matches" >> THEN "delete"
       ELSE IF req.method = "DELETE" /\ tail = << "matches", "all" >> THEN "clear"
       ELSE IF req.method = "GET" /\ tail = << "live" >> THEN "getLive"
       ELSE IF req.method = "POST" /\ tail = << "live" >> THEN "addLive"
       ELSE "none"

Rejected(d) == [ok |-> FALSE, db |-> d, data |-> Null]

\* One request against the collection d: whether it is answered 2xx, the
\* collection afterwards and the response body.
Serve(req, d) ==
    LET op == RouteOf(req)
        body == req.data
    IN IF op = "list"
       THEN [ok |-> TRUE, db |-> d, data |-> ListRecords(body.tournament, d)]
       ELSE IF op = "tournaments"
       THEN [ok |-> TRUE, db |-> d, data |-> DistinctTournaments(d)]
       ELSE IF op \in {"statistics", "summary"}
       THEN [ok |-> TRUE, db |-> d,
             data |-> [total_matches |-> Cardinality(d.records),
                       tournaments |-> Cardinality(DistinctTournaments(d))]]
       ELSE IF op = "preview"
       THEN IF BlankText(body.raw_text) THEN Rejected(d)
            ELSE [ok |-> TRUE, db |-> d, data |-> PreviewReport(body.raw_text)]
       ELSE IF op = "import"
       THEN IF BlankText(body.raw_text) THEN Rejected(d)
            ELSE IF req.url[1] = "cyber"
            THEN [ok |-> TRUE] @@ CyberCommitRows(body.raw_text, d)
            ELSE [ok |-> TRUE] @@ CommitRows(body.raw_text, d)
       ELSE IF op = "merge"
       THEN IF body.sources = {} \/ Trim(body.target) = << >> THEN Rejected(d)
            ELSE [ok |-> TRUE] @@ MergeRecords(body.sources, body.target, d)
       ELSE IF op = "replace"
       THEN IF body.find = << >> THEN Rejected(d)
            ELSE [ok |-> TRUE] @@
                 ReplaceRecords(req.url[1], body.find, body.replace, body.scope,
                                body.tournament, d)
       ELSE IF op = "normalize"
       THEN [ok |-> TRUE] @@ NormalizeRecords(d)
       ELSE IF op = "update"
       THEN IF \/ IdOfSegment(req.url[3], d) \notin {r.id : r \in d.records}
               \/ body.field \notin DOMAIN (CHOOSE r \in d.records : TRUE)
               \/ ~CoerceField(body.field, body.value).ok
            THEN Rejected(d)
            ELSE [ok |-> TRUE] @@
                 UpdateRecord(IdOfSegment(req.url[3], d), body.field, body.value, d)
       ELSE IF op = "delete"
       THEN [ok |-> TRUE] @@ DeleteRecords(body.ids, d)
       ELSE IF op = "clear"
       THEN [ok |-> TRUE] @@ ClearRecords(d)
       ELSE IF op = "getLive"
       THEN [ok |-> TRUE, db |-> d, data |-> SortedById(d.records)]
       ELSE IF op = "addLive"
       THEN [ok |-> TRUE] @@ AddLiveRecord(body, d)
       ELSE Rejected(d)

\* The outcome of a call after one more of its requests was answered with r:
\* d0 is the collection before the call, acc the outcome so far.
ServeStep(d0, acc, r) ==
    IF r.ok THEN [ok |-> TRUE, db |-> r.db, data |-> Append(acc.data, r.data)]
    ELSE [ok |-> FALSE, db |-> d0, data |-> << >>]

RECURSIVE ServeFrom(_, _, _)
ServeFrom(reqs, d0, acc) ==
    IF reqs = << >> \/ ~acc.ok THEN acc
    ELSE ServeFrom(Tail(reqs), d0, ServeStep(d0, acc, Serve(Head(reqs), acc.db)))

\* The requests of one call (Promise.all of several, or a single one),
\* answered in order; the call fails as soon as one of them does.
ServeAll(reqs, d) == ServeFrom(reqs, d, [ok |-> TRUE, db |-> d, data |-> << >>])

\* -------------------------------------------------------------- api client

\* src/api/client: halfs.* and cyber.* differ only in the collection.
GetMatches(coll, tournament) ==
    [method |-> "GET", url |-> << coll, "matches" >>,
     data |-> [tournament |-> tournament, limit |-> 10000]]

GetTournaments(coll) ==
    [method |-> "GET", url |-> << coll, "tournaments" >>, data |-> Null]

GetStatistics(coll) ==
    [method |-> "GET", url |-> << coll, "statistics" >>, data |-> Null]

GetSummary(coll, tournament) ==
    [method |-> "GET", url |-> << coll, "summary" >>,
     data |-> [tournament |-> tournament]]

\* Variant: the preview posted to the import endpoint.
PreviewImportToImportUrl(coll, rawText) ==
    [method |-> "POST", url |-> << coll, "matches", "import" >>,
     data |-> [raw_text |-> rawText]]

PreviewImport(coll, rawText) ==
    [method |-> "POST", url |-> << coll, "matches", "preview" >>,
     data |-> [raw_text |-> rawText]]

\* Variant: the commit posted to the preview endpoint.
ImportMatchesToPreviewUrl(coll, rawText) ==
    [method |-> "POST", url |-> << coll, "matches", "preview" >>,
     data |-> [raw_text |-> rawText]]

ImportMatches(coll, rawText) ==
    [method |-> "POST", url |-> << coll, "matches", "import" >>,
     data |-> [raw_text |-> rawText]]

\* replaceValues and mergeTournaments are called by the pages but their
\* definitions are not among the sources: request shapes from the
\* specification (section 6).
ReplaceValues(coll, find, repl, scope, tournament) ==
    [method |-> "POST", url |-> << coll, "matches", "replace" >>,
     data |-> [find |-> find, replace |-> repl, scope |-> scope,
               tournament |-> tournament]]

MergeTournamentsReq(coll, sources, target) ==
    [method |-> "POST", url |-> << coll, "tournaments", "merge" >>,
     data |-> [sources |-> sources, target |-> target]]


\* `/halfs/matches/${id}`: the id is written into the path.
UpdateMatch(coll, id, field, value) ==
    [method |-> "PATCH", url |-> << coll, "matches", ToString(id) >>,
     data |-> [field |-> field, value |-> value]]

NormalizeDatesReq(coll) ==
    [method |-> "POST", url |-> << coll, "matches", "normalize-dates" >>,
     data |-> Null]

DeleteMatches(coll, ids) ==
    [method |-> "DELETE", url |-> << coll, "matches" >>, data |-> [ids |-> ids]]

ClearAll(coll) ==
    [method |-> "DELETE", url |-> << coll, "matches", "all" >>, data |-> Null]

\* cybers.getLive and cybers.addLive
GetLive == [method |-> "GET", url |-> << "cybers", "live" >>, data |-> Null]

AddLive(match) == [method |-> "POST", url |-> << "cybers", "live" >>, data |-> match]

\* ------------------------------------------------------------------ inputs

Pages == {"halfs", "cyber", "live"}

\* Rows a user may paste into the half-score text box.
RowValid ==
    << "21.02.2026", TAB, "EL", TAB, "Real", "Madrid", TAB, "Olympiacos", TAB,
       "20", TAB, "18", TAB, "22", TAB, "19" >>

\* ISO date, padded cells, an empty cell and a 9th cell.
RowPadded ==
    << SP, "2026-02-21", TAB, TAB, "EL(w)", SP, TAB, "Real", "Madrid", TAB,
       "Olympiacos", TAB, "20", TAB, "18", TAB, "22", TAB, "19", TAB, "0" >>

RowShort == << "21.02.2026", TAB, "EL", TAB, "Olympiacos" >>

RowAmbiguousDate ==
    << "03.04.25", TAB, "EL", TAB, "Real", "Madrid", TAB, "Olympiacos", TAB,
       "20", TAB, "18", TAB, "22", TAB, "19" >>

RowNegative ==
    << "21.02.2026", TAB, "EL", TAB, "Real", "Madrid", TAB, "Olympiacos", TAB,
       "20", TAB, "-5", TAB, "22", TAB, "19" >>

Texts ==
    { << SP, NL, TAB >>,
      RowShort \o << NL >> \o RowValid \o << NL, SP, NL >> \o RowPadded,
      RowValid \o << NL >> \o RowAmbiguousDate,
      RowNegative \o << NL >> \o RowShort \o << NL >> }

\* Records the collections may hold when the page is mounted.
HalfRecord(id, tournament, home) ==
    WithId([c \in SeqRange(HalfColumns) |->
               IF c = "date" THEN << "21.02.2026" >>
               ELSE IF c = "tournament" THEN tournament
               ELSE IF c = "team_home" THEN home
               ELSE IF c = "team_away" THEN << "Olympiacos" >>
               ELSE 0], id)

CyberRecord(id, tournament, team) ==
    WithId([c \in SeqRange(CyberColumns) |->
               IF c = "date" THEN << "21.02.2026" >>
               ELSE IF c = "tournament" THEN tournament
               ELSE IF c = "team" THEN team
               ELSE IF c = "opponent" THEN << "Olympiacos" >>
               ELSE IF c \in TextColumns THEN << "H" >>
               ELSE 0], id)

TournEL == << "EL" >>
TournELW == << "EL", SP, "(W)" >>
TournELw == << "EL(w)" >>

InitialDbs(p) ==
    IF p = "halfs"
    THEN { [records |-> {}, nextId |-> 1],
           [records |-> { HalfRecord(1, TournELW, << "Real", "Madrid" >>) },
            nextId |-> 2],
           [records |-> { HalfRecord(1, TournELW, << "Real", "Madrid" >>),
                          HalfRecord(2, TournELw, << "Real", "Sociedad" >>) },
            nextId |-> 3],
           [records |-> { HalfRecord(1, TournELW, << "Real", "Madrid" >>),
                          HalfRecord(2, TournELw, << "Real", "Sociedad" >>),
                          HalfRecord(4, TournEL, << "Olympiacos" >>) },
            nextId |-> 5] }
    ELSE IF p = "live"
    THEN { [records |-> {}, nextId |-> 1] }
    ELSE { [records |-> { CyberRecord(1, TournELW, << "Real", "Madrid" >>),
                          CyberRecord(2, TournELw, << "Real", "Sociedad" >>) },
            nextId |-> 3],
           [records |-> { CyberRecord(1, TournELW, << "Real", "Madrid" >>),
                          CyberRecord(2, TournELw, << "Real", "Sociedad" >>),
                          CyberRecord(4, TournEL, << "Olympiacos" >>) },
            nextId |-> 5] }

\* Collections that hold dates written before the canonical form was
\* enforced: month-first with a 2-digit year, and an ambiguous one.
WithDate(rec, word) == [rec EXCEPT !.date = << word >>]

LegacyRecords(p) ==
    IF p = "halfs"
    THEN << HalfRecord(1, TournEL, << "Real", "Madrid" >>),
            HalfRecord(2, TournEL, << "Real", "Sociedad" >>),
            HalfRecord(4, TournELW, << "Olympiacos" >>) >>
    ELSE << CyberRecord(1, TournEL, << "Real", "Madrid" >>),
            CyberRecord(2, TournEL, << "Real", "Sociedad" >>),
            CyberRecord(4, TournELW, << "Olympiacos" >>) >>

LegacyDbs(p) ==
    IF p = "live" THEN {}
    ELSE { [records |-> { WithDate(LegacyRecords(p)[1], "02/21/26") }, nextId |-> 2],
           [records |-> { WithDate(LegacyRecords(p)[1], "03.04.25") }, nextId |-> 2],
           [records |-> { LegacyRecords(p)[1],
                          WithDate(LegacyRecords(p)[2], "02/21/26"),
                          WithDate(LegacyRecords(p)[3], "03.04.25") },
            nextId |-> 5] }

\* What a user may type into the date editor.
DateInputs == { << "2026-02-21" >>, << "03.04.25" >> }

\* A row whose tournament cell is blank.
RowNoTournament ==
    << "21.02.2026", TAB, SP, TAB, "Real", "Madrid", TAB, "Olympiacos", TAB,
       "20", TAB, "18", TAB, "22", TAB, "19" >>

\* What another client may ask of the collection: a commit with a row
\* without tournament, edits of the tournament of record 1 (to blank, to
\* EL) and a delete.
PeerRequests(p) ==
    { ImportMatches(p, RowValid \o << NL >> \o RowNoTournament),
      UpdateMatch(p, 1, "tournament", << SP >>),
      UpdateMatch(p, 1, "tournament", TournEL),
      DeleteMatches(p, { 1 }) }

\* A collection for the bulk corrections: each of them matches records 1
\* and 2 and leaves record 4 alone.
BulkDbs(p) ==
    IF p # "halfs" THEN {}
    ELSE {
    [records |-> { WithDate(HalfRecord(1, TournELW, << "Real", "Madrid" >>), "02/21/26"),
                   WithDate(HalfRecord(2, TournELw, << "Real", "Sociedad" >>), "02/21/26"),
                   HalfRecord(4, TournEL, << "Olympiacos" >>) },
     nextId |-> 5] }

\* The bulk corrections another client may ask for.
BulkRequests(p) ==
    { NormalizeDatesReq(p),
      ReplaceValues(p, << "Real" >>, << "R." >>, "all", Null),
      MergeTournamentsReq(p, { TournELW, TournELw }, TournEL) }

\* A row of 17 cells for the cyber page, and what a user may paste there.
CyberRowValid ==
    << "21.02.2026", TAB, "EL", TAB, "Real", "Madrid", TAB, "H", TAB,
       "20", TAB, "18", TAB, "22", TAB, "19", TAB, "20", TAB, "18", TAB,
       "22", TAB, "19", TAB, "0", TAB, "20", TAB, "Olympiacos", TAB, "0", TAB, "W" >>

CyberTexts == { << SP, NL, TAB >>, CyberRowValid }

\* Rows a user may paste into the live page's text box.
LiveRowValid == << "EL", TAB, "Real", "Madrid", TAB, SP, "Olympiacos", TAB, "2,5" >>

LiveRowNoTotal == << "EL(w)", TAB, "Real", "Sociedad", TAB, "Olympiacos" >>

LiveRowShort == << "EL", TAB, "Olympiacos", TAB, SP >>

LiveTexts ==
    { << SP, NL >>,
      LiveRowShort,
      LiveRowValid \o << NL >> \o LiveRowShort \o << NL, NL >> \o LiveRowNoTotal
         \o << NL >> }

\* What a user may type as the merge target, the find and the replacement.
TargetInputs == { << >>, << SP >>, TournELW, << SP, "EL", SP >> }
FindInputs == { << SP >>, << "Real" >> }
ReplaceInputs == { << "R." >> }

\* ------------------------------------------------------------------- state

VARIABLES
    page,               \* the mounted page: "halfs", "cyber" or "live"
    db,                 \* the page's collection in the store: records, nextId
    calls,              \* the HTTP calls of the page's handlers, by slot
    loading, matches, tournaments, stats, filterTournament,
    importText, previewOpen, previewLoading, previewSourceText, previewData,
    replaceOpen, replaceOld, replaceNew, replaceScope, replaceTournament,
    mergeOpen, mergeSources, mergeTarget,
    dateEditOpen, dateEditRecord, dateEditValue,
    selectedRows,       \* the ids ticked in the table
    toasts,             \* the messages shown by the latest handler step
    committedSincePreview,
                        \* history: a commit of this page has been answered
                        \* 2xx since the preview the page holds was received
    \* CyberLivePage.jsx (page = "cyberLive"; `loading` above is shared)
    inputText, rows, calcMap, calcLoading, archiveLoading, archiveRows,
    localKeyRef,
    timer,              \* the calculation effect's debounce timer is pending
    \* the service worker
    swState,            \* "parsed", "installing", "installed", "activating",
                        \* "activated" or "redundant"
    cacheStorage,       \* the origin's caches: their names and their entries
    swDeletes,          \* the caches the activate handler has still to delete
    swFetches,          \* the fetch events the worker is answering
    swPuts,             \* cache.put calls started and not yet done
    swAnswer            \* what the latest fetch event was answered with

baseVars == << loading, matches, tournaments, stats, filterTournament >>
importVars == << importText, previewOpen, previewLoading, previewSourceText,
                 previewData >>
replaceVars == << replaceOpen, replaceOld, replaceNew, replaceScope,
                  replaceTournament >>
mergeVars == << mergeOpen, mergeSources, mergeTarget >>
dateVars == << dateEditOpen, dateEditRecord, dateEditValue >>
cyberLiveVars == << inputText, rows, calcMap, calcLoading, archiveLoading,
                    archiveRows, localKeyRef, timer >>
workerVars == << swState, cacheStorage, swDeletes, swFetches, swPuts, swAnswer >>
histVars == << committedSincePreview >>
vars == << page, db, calls, baseVars, importVars, replaceVars, mergeVars, dateVars,
           selectedRows, toasts, cyberLiveVars, workerVars, histVars >>

Slots == 1..MaxCalls

IdleCall == [kind |-> "idle", phase |-> "idle", closure |-> Null,
             reqs |-> << >>, res |-> << >>]

NewCall(kind, closure, reqs) ==
    [kind |-> kind, phase |-> "sent", closure |-> closure, reqs |-> reqs,
     res |-> << >>]

FreeSlots(cs) == {i \in Slots : cs[i].kind = "idle"}

\* The slot a new call takes.
FreeSlot(cs) == CHOOSE i \in FreeSlots(cs) : \A j \in FreeSlots(cs) : i <= j

Toast(level, text, n) == [level |-> level, text |-> text, n |-> n]

EmptyPreview ==
    [parsed_count |-> 0, error_count |-> 0, parsed_rows |-> << >>, errors |-> << >>]

\* A modal's mask covers the page: the page's own controls can be used only
\* while no modal is open.
PageFree == ~previewOpen /\ ~replaceOpen /\ ~mergeOpen /\ ~dateEditOpen

\* loadData / loadAll: the requests of its Promise.all.
LoadDataRequests(filter) ==
    << GetMatches("halfs", filter), GetTournaments("halfs"), GetStatistics("halfs") >>

\* The cyber page's loadAll; summaryTournament stays null.
LoadAllRequests(filter) ==
    << GetMatches("cyber", filter), GetTournaments("cyber"), GetStatistics("cyber"),
       GetSummary("cyber", Null) >>

LoadRequests(p, filter) ==
    IF p = "halfs" THEN LoadDataRequests(filter) ELSE LoadAllRequests(filter)

\* The calls after loadData() has been entered with slot i free.
WithLoad(cs, i, filter) ==
    [cs EXCEPT ![i] = NewCall("load", Null, LoadRequests(page, filter))]

\* The call of the mount effect: loadData / loadAll on the base pages,
\* loadMatches on the live page.
MountCall(p) ==
    IF p = "live" THEN NewCall("loadMatches", Null, << GetLive >>)
    ELSE NewCall("load", Null, LoadRequests(p, Null))

\* The service worker script has been fetched and nothing of it has run; the
\* origin has no caches.
NoWorker ==
    /\ swState = "parsed"
    /\ cacheStorage = [keys |-> {}, entries |-> {}]
    /\ swDeletes = {}
    /\ swFetches = {}
    /\ swPuts = {}
    /\ swAnswer = Null

\* A page after its mount.
PageMounted ==
    /\ page \in Pages
    /\ db \in InitialDbs(page) \cup LegacyDbs(page) \cup BulkDbs(page)
    \* useEffect(() => { loadData(); }, [filterTournament]) has run on mount
    /\ calls = [i \in Slots |-> IF i = 1 THEN MountCall(page) ELSE IdleCall]
    /\ loading = TRUE
    /\ matches = IF page = "live" THEN << >> ELSE {}
    /\ tournaments = {}
    /\ stats = Null
    /\ filterTournament = Null
    /\ importText = << >>
    /\ previewOpen = FALSE
    /\ previewLoading = FALSE
    /\ previewSourceText = << >>
    /\ previewData = EmptyPreview
    /\ replaceOpen = FALSE
    /\ replaceOld = << >>
    /\ replaceNew = << >>
    /\ replaceScope = "all"
    /\ replaceTournament = Null
    /\ mergeOpen = FALSE
    /\ mergeSources = {}
    /\ mergeTarget = << >>
    /\ dateEditOpen = FALSE
    /\ dateEditRecord = Null
    /\ dateEditValue = << >>
    /\ selectedRows = {}
    /\ toasts = << >>
    /\ committedSincePreview = FALSE
    /\ inputText = << >>
    /\ rows = << >>
    /\ calcMap = {}
    /\ calcLoading = FALSE
    /\ archiveLoading = FALSE
    /\ archiveRows = {}
    /\ localKeyRef = 1
    /\ timer = FALSE

Init == PageMounted /\ NoWorker

\* ------------------------------------------------------------------ server

\* Call i is this page's commit of the text whose preview the page holds.
CommitsHeldPreview(i) ==
    /\ calls[i].kind = "import"
    /\ previewSourceText # << >>
    /\ calls[i].reqs[1].data.raw_text = previewSourceText

\* The backend answers call i: all its requests succeed.  Ids are capped by
\* MaxId.
ServeOk(i) ==
    /\ calls[i].phase = "sent"
    /\ \E r \in { ServeAll(calls[i].reqs, db) } :
          /\ r.ok
          /\ r.db.nextId = db.nextId \/ r.db.nextId <= MaxId + 1
          /\ db' = r.db
          /\ calls' = [calls EXCEPT ![i].phase = "ok", ![i].res = r.data]
    /\ UNCHANGED << page, cyberLiveVars, workerVars, dateVars, selectedRows, baseVars, importVars, replaceVars, mergeVars, toasts >>
    /\ committedSincePreview' = (CommitsHeldPreview(i) \/ committedSincePreview)

\* Call i fails: the request is rejected as invalid, or the store or the
\* network fails; nothing is written.
ServeFail(i) ==
    /\ calls[i].phase = "sent"
    /\ calls' = [calls EXCEPT ![i].phase = "fail"]
    /\ UNCHANGED << page, cyberLiveVars, workerVars, histVars, dateVars, selectedRows, db, baseVars, importVars, replaceVars, mergeVars, toasts >>

\* The Commit Engine one record at a time: ids are assigned atomically per
\* record, and commits that arrive together interleave between records.
\* While a commit is being served, the ids it has been given so far are
\* kept with the call.
MaxCommitId == 4

\* Variant: a commit numbers its rows on from the id its first row got.
CommitRecordNumbersOn(i) ==
    /\ calls[i].phase = "sent" /\ Len(calls[i].reqs) = 1
    /\ RouteOf(calls[i].reqs[1]) = "import"
    /\ ~BlankText(calls[i].reqs[1].data.raw_text)
    /\ db.nextId <= MaxCommitId
    /\ \E parsed \in { ParseText(calls[i].reqs[1].data.raw_text).parsed },
          k \in { Len(calls[i].res) } :
          /\ k < Len(parsed)
          /\ \E id \in { IF k = 0 THEN db.nextId ELSE calls[i].res[1] + k } :
                /\ db' = [records |-> db.records \cup { WithId(parsed[k + 1], id) },
                          nextId |-> db.nextId + 1]
                /\ calls' = [calls EXCEPT ![i].res = Append(@, id)]
    /\ UNCHANGED << page, cyberLiveVars, workerVars, histVars, dateVars, selectedRows, baseVars, importVars, replaceVars,
                    mergeVars, toasts >>

\* The next accepted row of commit i is stored under the next id.
CommitRecord(i) ==
    /\ calls[i].phase = "sent" /\ Len(calls[i].reqs) = 1
    /\ RouteOf(calls[i].reqs[1]) = "import"
    /\ ~BlankText(calls[i].reqs[1].data.raw_text)
    /\ db.nextId <= MaxCommitId
    /\ \E parsed \in { ParseText(calls[i].reqs[1].data.raw_text).parsed },
          k \in { Len(calls[i].res) } :
          /\ k < Len(parsed)
          /\ \E id \in { db.nextId } :
                /\ db' = [records |-> db.records \cup { WithId(parsed[k + 1], id) },
                          nextId |-> db.nextId + 1]
                /\ calls' = [calls EXCEPT ![i].res = Append(@, id)]
    /\ UNCHANGED << page, cyberLiveVars, workerVars, histVars, dateVars, selectedRows, baseVars, importVars, replaceVars,
                    mergeVars, toasts >>

\* Commit i has stored all its accepted rows: it is answered with the count
\* and the row errors.
CommitFinish(i) ==
    /\ calls[i].phase = "sent" /\ Len(calls[i].reqs) = 1
    /\ RouteOf(calls[i].reqs[1]) = "import"
    /\ ~BlankText(calls[i].reqs[1].data.raw_text)
    /\ \E r \in { ParseText(calls[i].reqs[1].data.raw_text) } :
          /\ Len(calls[i].res) = Len(r.parsed)
          /\ calls' = [calls EXCEPT ![i].phase = "ok",
                                    ![i].res = << [imported |-> Len(r.parsed),
                                                   errors |-> r.errors] >>]
    /\ UNCHANGED << page, cyberLiveVars, workerVars, dateVars, selectedRows, db, baseVars, importVars, replaceVars,
                    mergeVars, toasts >>
    /\ committedSincePreview' = (CommitsHeldPreview(i) \/ committedSincePreview)

\* Another client's commit arrives at the backend.
PeerCommit(text) ==
    /\ FreeSlots(calls) # {}
    /\ calls' = [calls EXCEPT ![FreeSlot(calls)] =
                    NewCall("peerImport", [text |-> text],
                            << ImportMatches(page, text) >>)]
    /\ UNCHANGED << page, cyberLiveVars, workerVars, histVars, dateVars, selectedRows, db, baseVars, importVars, replaceVars,
                    mergeVars, toasts >>

\* Another client's request of any kind arrives at the backend.
PeerSend(req) ==
    /\ FreeSlots(calls) # {}
    /\ calls' = [calls EXCEPT ![FreeSlot(calls)] = NewCall("peer", Null, << req >>)]
    /\ UNCHANGED << page, cyberLiveVars, workerVars, histVars, dateVars, selectedRows, db, baseVars, importVars, replaceVars,
                    mergeVars, toasts >>

\* The other client has its answer.
PeerAnswered(i) ==
    /\ calls[i].kind \in {"peerImport", "peer"} /\ calls[i].phase \in {"ok", "fail"}
    /\ calls' = [calls EXCEPT ![i] = IdleCall]
    /\ UNCHANGED << page, cyberLiveVars, workerVars, histVars, dateVars, selectedRows, db, baseVars, importVars, replaceVars,
                    mergeVars, toasts >>

\* The Bulk Correction Engine, scan then write: an operation first scans
\* the collection and plans its field writes, and later applies them; the
\* scans and writes of operations that arrive together interleave, and the
\* last write of a field wins.
BulkRoutes == {"normalize", "replace", "merge"}

\* The field writes an operation plans from its scan of the collection d.
BulkPlan(req, d) ==
    LET after == Serve(req, d).db.records
    IN UNION { { [id |-> r.id, field |-> f, value |-> r[f]] :
                   f \in {g \in DOMAIN r :
                             (CHOOSE o \in d.records : o.id = r.id)[g] # r[g]} }
               : r \in after \ d.records }

\* The collection after the planned writes have been applied.
ApplyWrites(plan, d) ==
    [d EXCEPT !.records =
        { [f \in DOMAIN r |->
              IF \E w \in plan : w.id = r.id /\ w.field = f
              THEN (CHOOSE w \in plan : w.id = r.id /\ w.field = f).value
              ELSE r[f]] : r \in d.records }]

\* Call i is a bulk correction that has scanned and not yet written; its
\* plan and its answer are kept with the call.
Scanned(i) ==
    /\ calls[i].phase = "sent" /\ Len(calls[i].reqs) = 1
    /\ RouteOf(calls[i].reqs[1]) \in BulkRoutes
    /\ calls[i].res # << >>

BulkScan(i) ==
    /\ calls[i].phase = "sent" /\ Len(calls[i].reqs) = 1
    /\ RouteOf(calls[i].reqs[1]) \in BulkRoutes
    /\ calls[i].res = << >>
    /\ \E r \in { Serve(calls[i].reqs[1], db) } :
          /\ r.ok
          /\ calls' = [calls EXCEPT ![i].res =
                          << [plan |-> BulkPlan(calls[i].reqs[1], db),
                              data |-> r.data] >>]
    /\ UNCHANGED << page, cyberLiveVars, workerVars, histVars, dateVars, selectedRows, db, baseVars, importVars, replaceVars,
                    mergeVars, toasts >>

\* Variant: the planned writes are applied one per step, the answer being
\* sent with the last.
BulkWriteRecordByRecord(i) ==
    /\ Scanned(i)
    /\ \E plan \in { calls[i].res[1].plan } :
          IF plan = {}
          THEN /\ db' = db
               /\ calls' = [calls EXCEPT ![i].phase = "ok",
                                         ![i].res = << calls[i].res[1].data >>]
          ELSE \E w \in plan :
                  /\ db' = ApplyWrites({w}, db)
                  /\ calls' = IF plan = {w}
                              THEN [calls EXCEPT ![i].phase = "ok",
                                                 ![i].res = << calls[i].res[1].data >>]
                              ELSE [calls EXCEPT ![i].res =
                                       << [plan |-> plan \ {w},
                                           data |-> calls[i].res[1].data] >>]
    /\ UNCHANGED << page, cyberLiveVars, workerVars, histVars, dateVars, selectedRows, baseVars, importVars, replaceVars,
                    mergeVars, toasts >>

\* The planned writes of call i are applied together and the call is
\* answered with the count of its scan.
BulkWrite(i) ==
    /\ Scanned(i)
    /\ db' = ApplyWrites(calls[i].res[1].plan, db)
    /\ calls' = [calls EXCEPT ![i].phase = "ok",
                              ![i].res = << calls[i].res[1].data >>]
    /\ UNCHANGED << page, cyberLiveVars, workerVars, histVars, dateVars, selectedRows, baseVars, importVars, replaceVars,
                    mergeVars, toasts >>

\* ------------------------------------------------------- loadData / loadAll

LoadThen(i) ==
    /\ calls[i].kind = "load" /\ calls[i].phase = "ok"
    /\ matches' = calls[i].res[1]
    /\ tournaments' = calls[i].res[2]
    /\ stats' = calls[i].res[3]
    /\ loading' = FALSE
    /\ toasts' = << >>
    /\ calls' = [calls EXCEPT ![i] = IdleCall]
    /\ UNCHANGED << page, cyberLiveVars, workerVars, histVars, dateVars, selectedRows, db, filterTournament, importVars, replaceVars, mergeVars >>

LoadCatch(i) ==
    /\ calls[i].kind = "load" /\ calls[i].phase = "fail"
    /\ loading' = FALSE
    /\ toasts' = << Toast("error", "load failed", 0) >>
    /\ calls' = [calls EXCEPT ![i] = IdleCall]
    /\ UNCHANGED << page, cyberLiveVars, workerVars, histVars, dateVars, selectedRows, db, matches, tournaments, stats, filterTournament,
                    importVars, replaceVars, mergeVars >>


\* ---------------------------------------------- half-score import (page)

\* obj.name read for its truth value or as a count: a missing property
\* (undefined) and 0 are both falsy.
PropNum(obj, name) == IF name \in DOMAIN obj THEN obj[name] ELSE 0

\* obj.errors?.length
ErrorsLength(obj) == IF "errors" \in DOMAIN obj THEN Len(obj.errors) ELSE 0

\* TextArea onChange
SetImportText(t) ==
    /\ PageFree
    /\ importText' = t
    /\ toasts' = << >>
    /\ UNCHANGED << page, cyberLiveVars, workerVars, histVars, dateVars, selectedRows, db, calls, baseVars, previewOpen, previewLoading,
                    previewSourceText, previewData, replaceVars, mergeVars >>

\* handlePreviewImport up to its await.
HandlePreviewImport ==
    IF BlankText(importText)
    THEN /\ toasts' = << Toast("warning", "paste rows to preview", 0) >>
         /\ UNCHANGED << page, cyberLiveVars, workerVars, histVars, dateVars, selectedRows, db, calls, baseVars, importVars, replaceVars, mergeVars >>
    ELSE /\ FreeSlots(calls) # {}
         /\ previewLoading' = TRUE
         /\ calls' = [calls EXCEPT ![FreeSlot(calls)] =
                         NewCall("preview", [text |-> importText],
                                 << PreviewImport(page, importText) >>)]
         /\ toasts' = << >>
         /\ UNCHANGED << page, cyberLiveVars, workerVars, histVars, dateVars, selectedRows, db, baseVars, importText, previewOpen,
                         previewSourceText, previewData, replaceVars, mergeVars >>

\* The "preview" button (loading = previewLoading).
ClickPreview ==
    /\ PageFree /\ ~previewLoading
    /\ HandlePreviewImport

\* handleImport: the "import" button (loading = loading) runs the preview.
HandleImport ==
    /\ PageFree /\ ~loading
    /\ HandlePreviewImport

\* Variant: the source text is taken from the text box as it is when the
\* response arrives, not from the handler's own closure.
HandlePreviewImportThenLiveText(i) ==
    /\ calls[i].kind = "preview" /\ calls[i].phase = "ok"
    /\ previewData' = calls[i].res[1]
    /\ previewSourceText' = importText
    /\ previewOpen' = TRUE
    /\ toasts' = IF PropNum(calls[i].res[1], "parsed_count") = 0
                 THEN << Toast("warning", "no valid rows to import", 0) >>
                 ELSE << >>
    /\ previewLoading' = FALSE
    /\ calls' = [calls EXCEPT ![i] = IdleCall]
    /\ UNCHANGED << page, cyberLiveVars, workerVars, dateVars, selectedRows, db, baseVars, importText, replaceVars, mergeVars >>
    /\ committedSincePreview' = FALSE

\* handlePreviewImport after its await: the try block and the finally.
HandlePreviewImportThen(i) ==
    /\ calls[i].kind = "preview" /\ calls[i].phase = "ok"
    /\ previewData' = calls[i].res[1]
    /\ previewSourceText' = calls[i].closure.text
    /\ previewOpen' = TRUE
    /\ toasts' = IF PropNum(calls[i].res[1], "parsed_count") = 0
                 THEN << Toast("warning", "no valid rows to import", 0) >>
                 ELSE << >>
    /\ previewLoading' = FALSE
    /\ calls' = [calls EXCEPT ![i] = IdleCall]
    /\ UNCHANGED << page, cyberLiveVars, workerVars, dateVars, selectedRows, db, baseVars, importText, replaceVars, mergeVars >>
    /\ committedSincePreview' = FALSE

HandlePreviewImportCatch(i) ==
    /\ calls[i].kind = "preview" /\ calls[i].phase = "fail"
    /\ toasts' = << Toast("error", "preview failed", 0) >>
    /\ previewLoading' = FALSE
    /\ calls' = [calls EXCEPT ![i] = IdleCall]
    /\ UNCHANGED << page, cyberLiveVars, workerVars, histVars, dateVars, selectedRows, db, baseVars, importText, previewOpen,
                    previewSourceText, previewData, replaceVars, mergeVars >>

\* The preview modal's cancel button and onCancel.
ClosePreview ==
    /\ previewOpen
    /\ previewOpen' = FALSE
    /\ toasts' = << >>
    /\ UNCHANGED << page, cyberLiveVars, workerVars, histVars, dateVars, selectedRows, db, calls, baseVars, importText, previewLoading,
                    previewSourceText, previewData, replaceVars, mergeVars >>

\* Variant: the commit sends the text box, not the previewed text.
HandleImportConfirmedSendsTextBox ==
    IF BlankText(previewSourceText)
    THEN /\ toasts' = << Toast("warning", "nothing to import", 0) >>
         /\ UNCHANGED << page, cyberLiveVars, workerVars, histVars, dateVars, selectedRows, db, calls, baseVars, importVars, replaceVars, mergeVars >>
    ELSE /\ FreeSlots(calls) # {}
         /\ loading' = TRUE
         /\ calls' = [calls EXCEPT ![FreeSlot(calls)] =
                         NewCall("import",
                                 [text |-> previewSourceText,
                                  filter |-> filterTournament],
                                 << ImportMatches(page, importText) >>)]
         /\ toasts' = << >>
         /\ UNCHANGED << page, cyberLiveVars, workerVars, histVars, dateVars, selectedRows, db, matches, tournaments, stats, filterTournament,
                         importVars, replaceVars, mergeVars >>

\* handleImportConfirmed up to its await.
HandleImportConfirmed ==
    IF BlankText(previewSourceText)
    THEN /\ toasts' = << Toast("warning", "nothing to import", 0) >>
         /\ UNCHANGED << page, cyberLiveVars, workerVars, histVars, dateVars, selectedRows, db, calls, baseVars, importVars, replaceVars, mergeVars >>
    ELSE /\ FreeSlots(calls) # {}
         /\ loading' = TRUE
         /\ calls' = [calls EXCEPT ![FreeSlot(calls)] =
                         NewCall("import",
                                 [text |-> previewSourceText,
                                  filter |-> filterTournament],
                                 << ImportMatches(page, previewSourceText) >>)]
         /\ toasts' = << >>
         /\ UNCHANGED << page, cyberLiveVars, workerVars, histVars, dateVars, selectedRows, db, matches, tournaments, stats, filterTournament,
                         importVars, replaceVars, mergeVars >>

\* Variant: the confirm button is enabled whatever the preview parsed.
ClickConfirmAlwaysEnabled ==
    /\ previewOpen
    /\ ~loading
    /\ HandleImportConfirmed

\* The preview modal's confirm button (disabled without parsed rows,
\* loading = loading).
ClickConfirm ==
    /\ previewOpen
    /\ PropNum(previewData, "parsed_count") # 0
    /\ ~loading
    /\ HandleImportConfirmed

\* Variant: a response that lists row errors is handled as a failed import.
HandleImportConfirmedThenStrict(i) ==
    /\ calls[i].kind = "import" /\ calls[i].phase = "ok"
    /\ IF ErrorsLength(calls[i].res[1]) # 0
       THEN /\ toasts' = << Toast("error", "import failed", 0) >>
            /\ loading' = FALSE
            /\ calls' = [calls EXCEPT ![i] = IdleCall]
            /\ UNCHANGED << importVars >>
       ELSE /\ toasts' = << Toast("success", "imported",
                                  PropNum(calls[i].res[1], "imported")) >>
            /\ importText' = << >>
            /\ previewOpen' = FALSE
            /\ previewSourceText' = << >>
            /\ previewData' = EmptyPreview
            /\ calls' = WithLoad(calls, i, calls[i].closure.filter)
            /\ loading' = FALSE
            /\ UNCHANGED previewLoading
    /\ UNCHANGED << page, cyberLiveVars, workerVars, dateVars, selectedRows, db, matches, tournaments, stats, filterTournament,
                    replaceVars, mergeVars >>
    /\ committedSincePreview' = (ErrorsLength(calls[i].res[1]) # 0 /\ committedSincePreview)

\* handleImportConfirmed after its await: the try block, which ends by
\* entering loadData(), and the finally, whose setLoading(false) is the
\* last write of the step.
HandleImportConfirmedThen(i) ==
    /\ calls[i].kind = "import" /\ calls[i].phase = "ok"
    /\ toasts' = << Toast("success", "imported", PropNum(calls[i].res[1], "imported")) >>
                 \o (IF ErrorsLength(calls[i].res[1]) # 0
                     THEN << Toast("warning", "rows with errors",
                                   ErrorsLength(calls[i].res[1])) >>
                     ELSE << >>)
    /\ importText' = << >>
    /\ previewOpen' = FALSE
    /\ previewSourceText' = << >>
    /\ previewData' = EmptyPreview
    /\ calls' = WithLoad(calls, i, calls[i].closure.filter)
    /\ loading' = FALSE
    /\ UNCHANGED << page, cyberLiveVars, workerVars, dateVars, selectedRows, db, matches, tournaments, stats, filterTournament,
                    previewLoading, replaceVars, mergeVars >>
    /\ committedSincePreview' = FALSE

HandleImportConfirmedCatch(i) ==
    /\ calls[i].kind = "import" /\ calls[i].phase = "fail"
    /\ toasts' = << Toast("error", "import failed", 0) >>
    /\ loading' = FALSE
    /\ calls' = [calls EXCEPT ![i] = IdleCall]
    /\ UNCHANGED << page, cyberLiveVars, workerVars, histVars, dateVars, selectedRows, db, matches, tournaments, stats, filterTournament,
                    importVars, replaceVars, mergeVars >>

\* ------------------------------------------------- live lines (page)

\* if (cells.length < 3) continue;
LiveMinCells == 3

\* String.prototype.replace(',', '.') on the words of the model.
CommaToDot ==
    ("2,5" :> "2.5")

\* parseFloat on the words of the model, in tenths; anything else is NaN.
FloatLex ==
    ("2.5" :> 25) @@ ("20" :> 200)

\* cells[3], read as the total.
LiveTotal(cell) ==
    LET w == IF cell[1] \in DOMAIN CommaToDot THEN CommaToDot[cell[1]] ELSE cell[1]
    IN IF w \in DOMAIN FloatLex THEN FloatLex[w] ELSE Null

\* The object handleImport posts for a line's cells.
LiveMatchOf(cells) ==
    [tournament |-> cells[1], team1 |-> cells[2], team2 |-> cells[3],
     total |-> IF Len(cells) >= 4 THEN LiveTotal(cells[4]) ELSE Null,
     calc_temp |-> 0]

\* The lines from `from` on that the loop does not skip.
LiveSendable(lines, from) ==
    {j \in from..Len(lines) : Len(Cells(lines[j])) >= LiveMinCells}

\* handleImport's loop entered at line `from`, in call slot i: up to the
\* next await, or through the end of the handler.
LiveLoop(lines, from, i) ==
    IF LiveSendable(lines, from) # {}
    THEN LET j == CHOOSE k \in LiveSendable(lines, from) :
                      \A m \in LiveSendable(lines, from) : k <= m
         IN /\ calls' = [calls EXCEPT ![i] =
                           NewCall("addLive", [lines |-> lines, line |-> j],
                                   << AddLive(LiveMatchOf(Cells(lines[j]))) >>)]
            /\ toasts' = << >>
            /\ UNCHANGED << importText, loading >>
    ELSE /\ importText' = << >>
         /\ toasts' = << Toast("success", "import finished", 0) >>
         /\ calls' = [calls EXCEPT ![i] = NewCall("loadMatches", Null, << GetLive >>)]
         /\ loading' = TRUE

\* TextArea onChange
SetLiveImportText(t) ==
    /\ page = "live"
    /\ importText' = t
    /\ toasts' = << >>
    /\ UNCHANGED << page, cyberLiveVars, workerVars, histVars, dateVars, selectedRows, db, calls, baseVars, previewOpen, previewLoading,
                    previewSourceText, previewData, replaceVars, mergeVars >>

\* handleImport, from the click up to its first await.
LiveHandleImport ==
    /\ page = "live"
    /\ IF BlankText(importText)
       THEN /\ toasts' = << >>
            /\ UNCHANGED << calls, importText, loading >>
       ELSE /\ FreeSlots(calls) # {}
            /\ LiveLoop(Split(Trim(importText), NL), 1, FreeSlot(calls))
    /\ UNCHANGED << page, cyberLiveVars, workerVars, histVars, dateVars, selectedRows, db, matches, tournaments, stats, filterTournament,
                    previewOpen, previewLoading, previewSourceText, previewData,
                    replaceVars, mergeVars >>

\* handleImport after addLive resolved: the row is appended and the loop
\* goes on.
LiveAddThen(i) ==
    /\ calls[i].kind = "addLive" /\ calls[i].phase = "ok"
    /\ matches' = Append(matches, calls[i].res[1])
    /\ LiveLoop(calls[i].closure.lines, calls[i].closure.line + 1, i)
    /\ UNCHANGED << page, cyberLiveVars, workerVars, histVars, dateVars, selectedRows, db, tournaments, stats, filterTournament,
                    previewOpen, previewLoading, previewSourceText, previewData,
                    replaceVars, mergeVars >>

\* handleImport after addLive rejected: catch (e) { /* skip errors */ }
LiveAddCatch(i) ==
    /\ calls[i].kind = "addLive" /\ calls[i].phase = "fail"
    /\ LiveLoop(calls[i].closure.lines, calls[i].closure.line + 1, i)
    /\ UNCHANGED << page, cyberLiveVars, workerVars, histVars, dateVars, selectedRows, db, matches, tournaments, stats, filterTournament,
                    previewOpen, previewLoading, previewSourceText, previewData,
                    replaceVars, mergeVars >>

\* loadMatches after its await.
LoadMatchesThen(i) ==
    /\ calls[i].kind = "loadMatches" /\ calls[i].phase = "ok"
    /\ matches' = calls[i].res[1]
    /\ loading' = FALSE
    /\ toasts' = << >>
    /\ calls' = [calls EXCEPT ![i] = IdleCall]
    /\ UNCHANGED << page, cyberLiveVars, workerVars, histVars, dateVars, selectedRows, db, tournaments, stats, filterTournament, importVars,
                    replaceVars, mergeVars >>

LoadMatchesCatch(i) ==
    /\ calls[i].kind = "loadMatches" /\ calls[i].phase = "fail"
    /\ loading' = FALSE
    /\ toasts' = << Toast("error", "load failed", 0) >>
    /\ calls' = [calls EXCEPT ![i] = IdleCall]
    /\ UNCHANGED << page, cyberLiveVars, workerVars, histVars, dateVars, selectedRows, db, matches, tournaments, stats, filterTournament,
                    importVars, replaceVars, mergeVars >>

\* ------------------------------------------ tournament filter (page)

\* The filter Select's onChange (allowClear), and the effect on
\* [filterTournament] that reloads.
SetFilterTournament(t) ==
    /\ PageFree
    /\ t # filterTournament
    /\ FreeSlots(calls) # {}
    /\ filterTournament' = t
    /\ loading' = TRUE
    /\ calls' = WithLoad(calls, FreeSlot(calls), t)
    /\ toasts' = << >>
    /\ UNCHANGED << page, cyberLiveVars, workerVars, histVars, dateVars, selectedRows, db, matches, tournaments, stats, importVars,
                    replaceVars, mergeVars >>

\* ------------------------------------------------- scoped replace (page)

\* The "replace" button.
OpenReplace ==
    /\ PageFree
    /\ replaceTournament' = filterTournament
    /\ replaceScope' = IF filterTournament # Null THEN "tournament" ELSE "all"
    /\ replaceOpen' = TRUE
    /\ toasts' = << >>
    /\ UNCHANGED << page, cyberLiveVars, workerVars, histVars, dateVars, selectedRows, db, calls, baseVars, importVars, replaceOld, replaceNew,
                    mergeVars >>

CloseReplace ==
    /\ replaceOpen
    /\ replaceOpen' = FALSE
    /\ toasts' = << >>
    /\ UNCHANGED << page, cyberLiveVars, workerVars, histVars, dateVars, selectedRows, db, calls, baseVars, importVars, replaceOld, replaceNew,
                    replaceScope, replaceTournament, mergeVars >>

SetReplaceOld(f) ==
    /\ replaceOpen
    /\ replaceOld' = f
    /\ toasts' = << >>
    /\ UNCHANGED << page, cyberLiveVars, workerVars, histVars, dateVars, selectedRows, db, calls, baseVars, importVars, replaceOpen, replaceNew,
                    replaceScope, replaceTournament, mergeVars >>

SetReplaceNew(r) ==
    /\ replaceOpen
    /\ replaceNew' = r
    /\ toasts' = << >>
    /\ UNCHANGED << page, cyberLiveVars, workerVars, histVars, dateVars, selectedRows, db, calls, baseVars, importVars, replaceOpen, replaceOld,
                    replaceScope, replaceTournament, mergeVars >>

SetReplaceScope(sc) ==
    /\ replaceOpen
    /\ replaceScope' = sc
    /\ toasts' = << >>
    /\ UNCHANGED << page, cyberLiveVars, workerVars, histVars, dateVars, selectedRows, db, calls, baseVars, importVars, replaceOpen, replaceOld,
                    replaceNew, replaceTournament, mergeVars >>

\* The tournament Select, rendered only for scope "tournament"; its
\* options are the loaded tournaments.
SetReplaceTournament(t) ==
    /\ replaceOpen /\ replaceScope = "tournament"
    /\ t \in tournaments
    /\ replaceTournament' = t
    /\ toasts' = << >>
    /\ UNCHANGED << page, cyberLiveVars, workerVars, histVars, dateVars, selectedRows, db, calls, baseVars, importVars, replaceOpen, replaceOld,
                    replaceNew, replaceScope, mergeVars >>

\* Variant: the find text is tested as typed, without trim().
RunReplaceNoTrim ==
    IF replaceOld = << >>
    THEN /\ toasts' = << Toast("warning", "enter what to replace", 0) >>
         /\ UNCHANGED << page, cyberLiveVars, workerVars, histVars, dateVars, selectedRows, db, calls, baseVars, importVars, replaceVars, mergeVars >>
    ELSE IF replaceScope = "tournament" /\ replaceTournament = Null
    THEN /\ toasts' = << Toast("warning", "choose a tournament", 0) >>
         /\ UNCHANGED << page, cyberLiveVars, workerVars, histVars, dateVars, selectedRows, db, calls, baseVars, importVars, replaceVars, mergeVars >>
    ELSE /\ FreeSlots(calls) # {}
         /\ loading' = TRUE
         /\ calls' = [calls EXCEPT ![FreeSlot(calls)] =
                         NewCall("replace",
                                 [filter |-> filterTournament, scope |-> replaceScope,
                                  tournament |-> replaceTournament],
                                 << ReplaceValues(page, replaceOld, replaceNew,
                                                  replaceScope,
                                                  IF replaceScope = "tournament"
                                                  THEN replaceTournament ELSE Null) >>)]
         /\ toasts' = << >>
         /\ UNCHANGED << page, cyberLiveVars, workerVars, histVars, dateVars, selectedRows, db, matches, tournaments, stats, filterTournament,
                         importVars, replaceVars, mergeVars >>

\* Variant: the chosen tournament is sent whatever the scope.
RunReplaceAlwaysSendsTournament ==
    IF BlankText(replaceOld)
    THEN /\ toasts' = << Toast("warning", "enter what to replace", 0) >>
         /\ UNCHANGED << page, cyberLiveVars, workerVars, histVars, dateVars, selectedRows, db, calls, baseVars, importVars, replaceVars, mergeVars >>
    ELSE IF replaceScope = "tournament" /\ replaceTournament = Null
    THEN /\ toasts' = << Toast("warning", "choose a tournament", 0) >>
         /\ UNCHANGED << page, cyberLiveVars, workerVars, histVars, dateVars, selectedRows, db, calls, baseVars, importVars, replaceVars, mergeVars >>
    ELSE /\ FreeSlots(calls) # {}
         /\ loading' = TRUE
         /\ calls' = [calls EXCEPT ![FreeSlot(calls)] =
                         NewCall("replace",
                                 [filter |-> filterTournament, scope |-> replaceScope,
                                  tournament |-> replaceTournament],
                                 << ReplaceValues(page, replaceOld, replaceNew,
                                                  replaceScope, replaceTournament) >>)]
         /\ toasts' = << >>
         /\ UNCHANGED << page, cyberLiveVars, workerVars, histVars, dateVars, selectedRows, db, matches, tournaments, stats, filterTournament,
                         importVars, replaceVars, mergeVars >>

\* runReplace up to its await.
RunReplace ==
    IF BlankText(replaceOld)
    THEN /\ toasts' = << Toast("warning", "enter what to replace", 0) >>
         /\ UNCHANGED << page, cyberLiveVars, workerVars, histVars, dateVars, selectedRows, db, calls, baseVars, importVars, replaceVars, mergeVars >>
    ELSE IF replaceScope = "tournament" /\ replaceTournament = Null
    THEN /\ toasts' = << Toast("warning", "choose a tournament", 0) >>
         /\ UNCHANGED << page, cyberLiveVars, workerVars, histVars, dateVars, selectedRows, db, calls, baseVars, importVars, replaceVars, mergeVars >>
    ELSE /\ FreeSlots(calls) # {}
         /\ loading' = TRUE
         /\ calls' = [calls EXCEPT ![FreeSlot(calls)] =
                         NewCall("replace",
                                 [filter |-> filterTournament, scope |-> replaceScope,
                                  tournament |-> replaceTournament],
                                 << ReplaceValues(page, replaceOld, replaceNew,
                                                  replaceScope,
                                                  IF replaceScope = "tournament"
                                                  THEN replaceTournament ELSE Null) >>)]
         /\ toasts' = << >>
         /\ UNCHANGED << page, cyberLiveVars, workerVars, histVars, dateVars, selectedRows, db, matches, tournaments, stats, filterTournament,
                         importVars, replaceVars, mergeVars >>

\* The cyber page's runReplace: the same statements, on cyber.* and loadAll
\* (the collection and the reload are those of the mounted page).
CyberRunReplace == RunReplace

\* The replace modal's OK button (confirmLoading = loading).
ClickReplaceOk ==
    /\ replaceOpen /\ ~loading
    /\ IF page = "cyber" THEN CyberRunReplace ELSE RunReplace

\* runReplace after its await; loadData() leaves loading set.
RunReplaceThen(i) ==
    /\ calls[i].kind = "replace" /\ calls[i].phase = "ok"
    /\ toasts' = << Toast("success", "replaced", PropNum(calls[i].res[1], "replaced")) >>
    /\ replaceOpen' = FALSE
    /\ calls' = WithLoad(calls, i, calls[i].closure.filter)
    /\ loading' = TRUE
    /\ UNCHANGED << page, cyberLiveVars, workerVars, histVars, dateVars, selectedRows, db, matches, tournaments, stats, filterTournament,
                    importVars, replaceOld, replaceNew, replaceScope,
                    replaceTournament, mergeVars >>

RunReplaceCatch(i) ==
    /\ calls[i].kind = "replace" /\ calls[i].phase = "fail"
    /\ toasts' = << Toast("error", "replace failed", 0) >>
    /\ loading' = FALSE
    /\ calls' = [calls EXCEPT ![i] = IdleCall]
    /\ UNCHANGED << page, cyberLiveVars, workerVars, histVars, dateVars, selectedRows, db, matches, tournaments, stats, filterTournament,
                    importVars, replaceVars, mergeVars >>

\* ----------------------------------------------- tournament merge (page)

OpenMerge ==
    /\ PageFree
    /\ mergeOpen' = TRUE
    /\ toasts' = << >>
    /\ UNCHANGED << page, cyberLiveVars, workerVars, histVars, dateVars, selectedRows, db, calls, baseVars, importVars, replaceVars,
                    mergeSources, mergeTarget >>

CloseMerge ==
    /\ mergeOpen
    /\ mergeOpen' = FALSE
    /\ toasts' = << >>
    /\ UNCHANGED << page, cyberLiveVars, workerVars, histVars, dateVars, selectedRows, db, calls, baseVars, importVars, replaceVars,
                    mergeSources, mergeTarget >>

\* The multiple Select; its options are the loaded tournaments.
SetMergeSources(srcs) ==
    /\ mergeOpen
    /\ srcs \subseteq tournaments
    /\ mergeSources' = srcs
    /\ toasts' = << >>
    /\ UNCHANGED << page, cyberLiveVars, workerVars, histVars, dateVars, selectedRows, db, calls, baseVars, importVars, replaceVars,
                    mergeOpen, mergeTarget >>

SetMergeTarget(t) ==
    /\ mergeOpen
    /\ mergeTarget' = t
    /\ toasts' = << >>
    /\ UNCHANGED << page, cyberLiveVars, workerVars, histVars, dateVars, selectedRows, db, calls, baseVars, importVars, replaceVars,
                    mergeOpen, mergeSources >>

\* Variant: the target is tested and sent as typed, without trim().
RunMergeTournamentsNoTrim ==
    IF mergeSources = {}
    THEN /\ toasts' = << Toast("warning", "choose at least one tournament", 0) >>
         /\ UNCHANGED << page, cyberLiveVars, workerVars, histVars, dateVars, selectedRows, db, calls, baseVars, importVars, replaceVars, mergeVars >>
    ELSE IF mergeTarget = << >>
    THEN /\ toasts' = << Toast("warning", "enter the target tournament", 0) >>
         /\ UNCHANGED << page, cyberLiveVars, workerVars, histVars, dateVars, selectedRows, db, calls, baseVars, importVars, replaceVars, mergeVars >>
    ELSE /\ FreeSlots(calls) # {}
         /\ loading' = TRUE
         /\ calls' = [calls EXCEPT ![FreeSlot(calls)] =
                         NewCall("merge",
                                 [filter |-> filterTournament,
                                  sources |-> mergeSources, target |-> mergeTarget],
                                 << MergeTournamentsReq(page, mergeSources,
                                                        mergeTarget) >>)]
         /\ toasts' = << >>
         /\ UNCHANGED << page, cyberLiveVars, workerVars, histVars, dateVars, selectedRows, db, matches, tournaments, stats, filterTournament,
                         importVars, replaceVars, mergeVars >>

\* Variant: the guards test the trimmed target, the typed one is sent.
RunMergeTournamentsSendsTyped ==
    LET target == Trim(mergeTarget)
    IN IF mergeSources = {}
       THEN /\ toasts' = << Toast("warning", "choose at least one tournament", 0) >>
            /\ UNCHANGED << page, cyberLiveVars, workerVars, histVars, dateVars, selectedRows, db, calls, baseVars, importVars, replaceVars, mergeVars >>
       ELSE IF target = << >>
       THEN /\ toasts' = << Toast("warning", "enter the target tournament", 0) >>
            /\ UNCHANGED << page, cyberLiveVars, workerVars, histVars, dateVars, selectedRows, db, calls, baseVars, importVars, replaceVars, mergeVars >>
       ELSE /\ FreeSlots(calls) # {}
            /\ loading' = TRUE
            /\ calls' = [calls EXCEPT ![FreeSlot(calls)] =
                            NewCall("merge",
                                    [filter |-> filterTournament,
                                     sources |-> mergeSources, target |-> mergeTarget],
                                    << MergeTournamentsReq(page, mergeSources,
                                                           mergeTarget) >>)]
            /\ toasts' = << >>
            /\ UNCHANGED << page, cyberLiveVars, workerVars, histVars, dateVars, selectedRows, db, matches, tournaments, stats, filterTournament,
                            importVars, replaceVars, mergeVars >>

\* runMergeTournaments up to its await.
RunMergeTournaments ==
    LET target == Trim(mergeTarget)
    IN IF mergeSources = {}
       THEN /\ toasts' = << Toast("warning", "choose at least one tournament", 0) >>
            /\ UNCHANGED << page, cyberLiveVars, workerVars, histVars, dateVars, selectedRows, db, calls, baseVars, importVars, replaceVars, mergeVars >>
       ELSE IF target = << >>
       THEN /\ toasts' = << Toast("warning", "enter the target tournament", 0) >>
            /\ UNCHANGED << page, cyberLiveVars, workerVars, histVars, dateVars, selectedRows, db, calls, baseVars, importVars, replaceVars, mergeVars >>
       ELSE /\ FreeSlots(calls) # {}
            /\ loading' = TRUE
            /\ calls' = [calls EXCEPT ![FreeSlot(calls)] =
                            NewCall("merge",
                                    [filter |-> filterTournament,
                                     sources |-> mergeSources, target |-> mergeTarget],
                                    << MergeTournamentsReq(page, mergeSources, target) >>)]
            /\ toasts' = << >>
            /\ UNCHANGED << page, cyberLiveVars, workerVars, histVars, dateVars, selectedRows, db, matches, tournaments, stats, filterTournament,
                            importVars, replaceVars, mergeVars >>

\* The cyber page's runMergeTournaments: the same statements, on cyber.* and
\* loadAll.
CyberRunMergeTournaments == RunMergeTournaments

\* The merge modal's OK button (confirmLoading = loading).
ClickMergeOk ==
    /\ mergeOpen /\ ~loading
    /\ IF page = "cyber" THEN CyberRunMergeTournaments ELSE RunMergeTournaments

\* runMergeTournaments after its await; loadData() leaves loading set.
RunMergeTournamentsThen(i) ==
    /\ calls[i].kind = "merge" /\ calls[i].phase = "ok"
    /\ toasts' = << Toast("success", "merged", PropNum(calls[i].res[1], "updated")) >>
    /\ mergeOpen' = FALSE
    /\ mergeSources' = {}
    /\ mergeTarget' = << >>
    /\ calls' = WithLoad(calls, i, calls[i].closure.filter)
    /\ loading' = TRUE
    /\ UNCHANGED << page, cyberLiveVars, workerVars, histVars, dateVars, selectedRows, db, matches, tournaments, stats, filterTournament,
                    importVars, replaceVars >>

RunMergeTournamentsCatch(i) ==
    /\ calls[i].kind = "merge" /\ calls[i].phase = "fail"
    /\ toasts' = << Toast("error", "merge failed", 0) >>
    /\ loading' = FALSE
    /\ calls' = [calls EXCEPT ![i] = IdleCall]
    /\ UNCHANGED << page, cyberLiveVars, workerVars, histVars, dateVars, selectedRows, db, matches, tournaments, stats, filterTournament,
                    importVars, replaceVars, mergeVars >>

\* ----------------------------------------------------------- specification

NextImport ==
    \/ \E t \in Texts : SetImportText(t)
    \/ ClickPreview
    \/ HandleImport
    \/ ClosePreview
    \/ ClickConfirm
    \/ \E i \in Slots :
          \/ ServeOk(i)
          \/ ServeFail(i)
          \/ LoadThen(i)
          \/ LoadCatch(i)
          \/ HandlePreviewImportThen(i)
          \/ HandlePreviewImportCatch(i)
          \/ HandleImportConfirmedThen(i)
          \/ HandleImportConfirmedCatch(i)

\* ------------------------------------------------ cyber import (page)

\* The cyber page's handleImport up to its await: blank text returns at
\* once, with no message.
CyberHandleImport ==
    IF BlankText(importText)
    THEN /\ toasts' = << >>
         /\ UNCHANGED << page, cyberLiveVars, workerVars, histVars, dateVars, selectedRows, db, calls, baseVars, importVars,
                         replaceVars, mergeVars >>
    ELSE /\ FreeSlots(calls) # {}
         /\ loading' = TRUE
         /\ calls' = [calls EXCEPT ![FreeSlot(calls)] =
                         NewCall("cyberImport",
                                 [text |-> importText, filter |-> filterTournament],
                                 << ImportMatches("cyber", importText) >>)]
         /\ toasts' = << >>
         /\ UNCHANGED << page, cyberLiveVars, workerVars, histVars, dateVars, selectedRows, db, matches, tournaments, stats,
                         filterTournament, importVars, replaceVars, mergeVars >>

\* The cyber page's import button (loading = loading).
ClickCyberImport ==
    /\ page = "cyber"
    /\ PageFree /\ ~loading
    /\ CyberHandleImport

\* handleImport after its await; loadAll() leaves loading set.
CyberHandleImportThen(i) ==
    /\ calls[i].kind = "cyberImport" /\ calls[i].phase = "ok"
    /\ toasts' = << Toast("success", "imported", PropNum(calls[i].res[1], "imported")) >>
                 \o (IF PropNum(calls[i].res[1], "skipped") # 0
                     THEN << Toast("warning", "rows skipped",
                                   PropNum(calls[i].res[1], "skipped")) >>
                     ELSE << >>)
    /\ importText' = << >>
    /\ calls' = WithLoad(calls, i, calls[i].closure.filter)
    /\ loading' = TRUE
    /\ UNCHANGED << page, cyberLiveVars, workerVars, histVars, dateVars, selectedRows, db, matches, tournaments, stats,
                    filterTournament, previewOpen, previewLoading, previewSourceText,
                    previewData, replaceVars, mergeVars >>

CyberHandleImportCatch(i) ==
    /\ calls[i].kind = "cyberImport" /\ calls[i].phase = "fail"
    /\ toasts' = << Toast("error", "import failed", 0) >>
    /\ loading' = FALSE
    /\ calls' = [calls EXCEPT ![i] = IdleCall]
    /\ UNCHANGED << page, cyberLiveVars, workerVars, histVars, dateVars, selectedRows, db, matches, tournaments, stats,
                    filterTournament, importVars, replaceVars, mergeVars >>

\* -------------------------------------------------- date tools (pages)

\* normalizeDates: the button carries loading={loading}.
NormalizeDates ==
    /\ PageFree /\ ~loading
    /\ FreeSlots(calls) # {}
    /\ loading' = TRUE
    /\ calls' = [calls EXCEPT ![FreeSlot(calls)] =
                    NewCall("normalize", [filter |-> filterTournament],
                            << NormalizeDatesReq(page) >>)]
    /\ toasts' = << >>
    /\ UNCHANGED << page, cyberLiveVars, workerVars, histVars, dateVars, selectedRows, db, matches, tournaments, stats,
                    filterTournament, importVars, replaceVars, mergeVars >>

CyberNormalizeDates == NormalizeDates

ClickNormalizeDates == IF page = "cyber" THEN CyberNormalizeDates ELSE NormalizeDates

\* normalizeDates after its await: loadData() is started and not awaited,
\* then the finally block clears loading.
NormalizeDatesThen(i) ==
    /\ calls[i].kind = "normalize" /\ calls[i].phase = "ok"
    /\ toasts' = << Toast("success", "dates normalized",
                          PropNum(calls[i].res[1], "updated")) >>
    /\ calls' = WithLoad(calls, i, calls[i].closure.filter)
    /\ loading' = FALSE
    /\ UNCHANGED << page, cyberLiveVars, workerVars, histVars, dateVars, selectedRows, db, matches, tournaments, stats,
                    filterTournament, importVars, replaceVars, mergeVars >>

NormalizeDatesCatch(i) ==
    /\ calls[i].kind = "normalize" /\ calls[i].phase = "fail"
    /\ toasts' = << Toast("error", "normalize failed", 0) >>
    /\ loading' = FALSE
    /\ calls' = [calls EXCEPT ![i] = IdleCall]
    /\ UNCHANGED << page, cyberLiveVars, workerVars, histVars, dateVars, selectedRows, db, matches, tournaments, stats,
                    filterTournament, importVars, replaceVars, mergeVars >>

\* The edit button of a table row; the table is covered while loading.
OpenDateEditor(record) ==
    /\ PageFree /\ ~loading
    /\ dateEditRecord' = record
    /\ dateEditValue' = record.date
    /\ dateEditOpen' = TRUE
    /\ toasts' = << >>
    /\ UNCHANGED << page, cyberLiveVars, workerVars, histVars, selectedRows, db, calls, baseVars, importVars, replaceVars,
                    mergeVars >>

\* The date editor's Input.
SetDateEditValue(v) ==
    /\ dateEditOpen
    /\ dateEditValue' = v
    /\ toasts' = << >>
    /\ UNCHANGED << page, cyberLiveVars, workerVars, histVars, selectedRows, db, calls, baseVars, importVars, replaceVars,
                    mergeVars, dateEditOpen, dateEditRecord >>

\* The date editor's onCancel.
CloseDateEdit ==
    /\ dateEditOpen
    /\ dateEditOpen' = FALSE
    /\ toasts' = << >>
    /\ UNCHANGED << page, cyberLiveVars, workerVars, histVars, selectedRows, db, calls, baseVars, importVars, replaceVars,
                    mergeVars, dateEditRecord, dateEditValue >>

\* saveDateEdit up to its await; it does not touch loading.
SaveDateEdit ==
    IF "id" \notin DOMAIN dateEditRecord
    THEN /\ toasts' = << >>
         /\ UNCHANGED << page, cyberLiveVars, workerVars, histVars, dateVars, selectedRows, db, calls, baseVars, importVars,
                         replaceVars, mergeVars >>
    ELSE /\ FreeSlots(calls) # {}
         /\ calls' = [calls EXCEPT ![FreeSlot(calls)] =
                         NewCall("dateEdit",
                                 [filter |-> filterTournament, record |-> dateEditRecord,
                                  value |-> dateEditValue],
                                 << UpdateMatch(page, dateEditRecord.id, "date",
                                                dateEditValue) >>)]
         /\ toasts' = << >>
         /\ UNCHANGED << page, cyberLiveVars, workerVars, histVars, dateVars, selectedRows, db, baseVars, importVars,
                         replaceVars, mergeVars >>

CyberSaveDateEdit == SaveDateEdit

\* The date editor's OK button; the modal has no confirmLoading.
ClickDateEditOk ==
    /\ dateEditOpen
    /\ IF page = "cyber" THEN CyberSaveDateEdit ELSE SaveDateEdit

\* Variant: the dialog is closed and the list reloaded on failure too.
SaveDateEditCatchCloses(i) ==
    /\ calls[i].kind = "dateEdit" /\ calls[i].phase = "fail"
    /\ toasts' = << Toast("error", "date not saved", 0) >>
    /\ dateEditOpen' = FALSE
    /\ calls' = WithLoad(calls, i, calls[i].closure.filter)
    /\ loading' = TRUE
    /\ UNCHANGED << page, cyberLiveVars, workerVars, histVars, selectedRows, db, matches, tournaments, stats,
                    filterTournament, importVars, replaceVars, mergeVars,
                    dateEditRecord, dateEditValue >>

\* saveDateEdit after its await.
SaveDateEditThen(i) ==
    /\ calls[i].kind = "dateEdit" /\ calls[i].phase = "ok"
    /\ toasts' = << Toast("success", "date updated", 0) >>
    /\ dateEditOpen' = FALSE
    /\ calls' = WithLoad(calls, i, calls[i].closure.filter)
    /\ loading' = TRUE
    /\ UNCHANGED << page, cyberLiveVars, workerVars, histVars, selectedRows, db, matches, tournaments, stats,
                    filterTournament, importVars, replaceVars, mergeVars,
                    dateEditRecord, dateEditValue >>

\* saveDateEdit's catch: the message only; the dialog stays as it is and
\* nothing is reloaded.
SaveDateEditCatch(i) ==
    /\ calls[i].kind = "dateEdit" /\ calls[i].phase = "fail"
    /\ toasts' = << Toast("error", "date not saved", 0) >>
    /\ calls' = [calls EXCEPT ![i] = IdleCall]
    /\ UNCHANGED << page, cyberLiveVars, workerVars, histVars, dateVars, selectedRows, db, baseVars, importVars,
                    replaceVars, mergeVars >>

\* -------------------------------------------------- deleting (pages)

\* The table's rowSelection; the table is covered while loading.
SetSelectedRows(keys) ==
    /\ PageFree /\ ~loading
    /\ selectedRows' = keys
    /\ toasts' = << >>
    /\ UNCHANGED << page, cyberLiveVars, workerVars, histVars, dateVars, db, calls, baseVars, importVars, replaceVars,
                    mergeVars >>

\* handleDelete up to its await.
HandleDelete ==
    IF selectedRows = {}
    THEN /\ toasts' = << >>
         /\ UNCHANGED << page, cyberLiveVars, workerVars, histVars, dateVars, selectedRows, db, calls, baseVars, importVars,
                         replaceVars, mergeVars >>
    ELSE /\ FreeSlots(calls) # {}
         /\ calls' = [calls EXCEPT ![FreeSlot(calls)] =
                         NewCall("delete", [filter |-> filterTournament],
                                 << DeleteMatches(page, selectedRows) >>)]
         /\ toasts' = << >>
         /\ UNCHANGED << page, cyberLiveVars, workerVars, histVars, dateVars, selectedRows, db, baseVars, importVars,
                         replaceVars, mergeVars >>

CyberHandleDeleteSelected == HandleDelete

\* The delete button (disabled while nothing is selected) and its Popconfirm.
ClickDelete ==
    /\ PageFree /\ selectedRows # {}
    /\ IF page = "cyber" THEN CyberHandleDeleteSelected ELSE HandleDelete

HandleDeleteThen(i) ==
    /\ calls[i].kind = "delete" /\ calls[i].phase = "ok"
    /\ toasts' = << Toast("success", "deleted", 0) >>
    /\ selectedRows' = {}
    /\ calls' = WithLoad(calls, i, calls[i].closure.filter)
    /\ loading' = TRUE
    /\ UNCHANGED << page, cyberLiveVars, workerVars, histVars, dateVars, db, matches, tournaments, stats, filterTournament,
                    importVars, replaceVars, mergeVars >>

HandleDeleteCatch(i) ==
    /\ calls[i].kind = "delete" /\ calls[i].phase = "fail"
    /\ toasts' = << Toast("error", "delete failed", 0) >>
    /\ calls' = [calls EXCEPT ![i] = IdleCall]
    /\ UNCHANGED << page, cyberLiveVars, workerVars, histVars, dateVars, selectedRows, db, baseVars, importVars,
                    replaceVars, mergeVars >>

\* The clear button's Popconfirm: the inline handler of the half-score
\* page, clearAll of the cyber page.
ClickClearAll ==
    /\ PageFree
    /\ FreeSlots(calls) # {}
    /\ calls' = [calls EXCEPT ![FreeSlot(calls)] =
                    NewCall("clear", [filter |-> filterTournament],
                            << ClearAll(page) >>)]
    /\ toasts' = << >>
    /\ UNCHANGED << page, cyberLiveVars, workerVars, histVars, dateVars, selectedRows, db, baseVars, importVars,
                    replaceVars, mergeVars >>

\* After the await: the half-score page only reloads; the cyber page also
\* shows a message and empties the selection.
ClearAllThen(i) ==
    /\ calls[i].kind = "clear" /\ calls[i].phase = "ok"
    /\ toasts' = IF page = "cyber" THEN << Toast("success", "cleared", 0) >> ELSE << >>
    /\ selectedRows' = IF page = "cyber" THEN {} ELSE selectedRows
    /\ calls' = WithLoad(calls, i, calls[i].closure.filter)
    /\ loading' = TRUE
    /\ UNCHANGED << page, cyberLiveVars, workerVars, histVars, dateVars, db, matches, tournaments, stats, filterTournament,
                    importVars, replaceVars, mergeVars >>

\* The failure: the half-score page's handler has no catch (the rejection
\* goes unhandled); the cyber page shows an error.
ClearAllCatch(i) ==
    /\ calls[i].kind = "clear" /\ calls[i].phase = "fail"
    /\ toasts' = IF page = "cyber" THEN << Toast("error", "clear failed", 0) >> ELSE << >>
    /\ calls' = [calls EXCEPT ![i] = IdleCall]
    /\ UNCHANGED << page, cyberLiveVars, workerVars, histVars, dateVars, selectedRows, db, baseVars, importVars,
                    replaceVars, mergeVars >>

\* The half-score page mounted on a collection that still has room for a
\* commit within MaxId.
InitHalfs ==
    Init /\ page = "halfs" /\ db \in InitialDbs(page) /\ db.nextId <= MaxId

\* The half-score page: preview and commit of pasted text.
Spec == InitHalfs /\ [][NextImport]_vars


\* Either base page mounted on a collection of three records.
InitMerge == Init /\ db \in InitialDbs(page) /\ Cardinality(db.records) = 3

NextMerge ==
    \/ OpenMerge
    \/ CloseMerge
    \/ \E srcs \in SUBSET tournaments : SetMergeSources(srcs)
    \/ \E t \in TargetInputs : SetMergeTarget(t)
    \/ ClickMergeOk
    \/ \E i \in Slots :
          \/ ServeOk(i)
          \/ ServeFail(i)
          \/ LoadThen(i)
          \/ LoadCatch(i)
          \/ RunMergeTournamentsThen(i)
          \/ RunMergeTournamentsCatch(i)

\* The base pages: merging tournaments.
SpecMerge == InitMerge /\ [][NextMerge]_vars

\* Either base page mounted on a collection of two records.
InitReplace == Init /\ db \in InitialDbs(page) /\ Cardinality(db.records) = 2

NextReplace ==
    \/ OpenReplace
    \/ CloseReplace
    \/ \E f \in FindInputs : SetReplaceOld(f)
    \/ \E r \in ReplaceInputs : SetReplaceNew(r)
    \/ \E sc \in {"all", "tournament"} : SetReplaceScope(sc)
    \/ \E t \in tournaments : SetReplaceTournament(t)
    \/ ClickReplaceOk
    \/ \E i \in Slots :
          \/ ServeOk(i)
          \/ ServeFail(i)
          \/ LoadThen(i)
          \/ LoadCatch(i)
          \/ RunReplaceThen(i)
          \/ RunReplaceCatch(i)

\* The base pages: find and replace.
SpecReplace == InitReplace /\ [][NextReplace]_vars

NextFilter ==
    \/ \E t \in tournaments \cup {Null} : SetFilterTournament(t)
    \/ OpenReplace
    \/ CloseReplace
    \/ \E sc \in {"all", "tournament"} : SetReplaceScope(sc)
    \/ \E t \in tournaments : SetReplaceTournament(t)
    \/ \E i \in Slots :
          \/ ServeOk(i)
          \/ ServeFail(i)
          \/ LoadThen(i)
          \/ LoadCatch(i)

\* The base pages: the tournament filter, and what the replace dialog
\* presets from it.
SpecFilter == InitReplace /\ [][NextFilter]_vars

\* Either base page mounted on a collection with dates to put right.
InitDates == Init /\ db \in LegacyDbs(page)

NextDates ==
    \/ ClickNormalizeDates
    \/ \E r \in matches : OpenDateEditor(r)
    \/ \E v \in DateInputs : SetDateEditValue(v)
    \/ CloseDateEdit
    \/ ClickDateEditOk
    \/ \E i \in Slots :
          \/ ServeOk(i)
          \/ ServeFail(i)
          \/ LoadThen(i)
          \/ LoadCatch(i)
          \/ NormalizeDatesThen(i)
          \/ NormalizeDatesCatch(i)
          \/ SaveDateEditThen(i)
          \/ SaveDateEditCatch(i)

\* The base pages: the date normalizer and the date editor.
SpecDates == InitDates /\ [][NextDates]_vars

\* The half-score page mounted on the collection whose only record carries
\* the ambiguous date 03.04.25.
InitAmbiguous ==
    /\ Init /\ page = "halfs"
    /\ db.records = { WithDate(LegacyRecords(page)[1], "03.04.25") }

NextAmbiguous ==
    \/ NextImport
    \/ ClickNormalizeDates
    \/ \E i \in Slots :
          \/ NormalizeDatesThen(i)
          \/ NormalizeDatesCatch(i)

\* The half-score page: import and the date normalizer on ambiguous dates.
SpecAmbiguous == InitAmbiguous /\ [][NextAmbiguous]_vars

\* The text of one valid row.
OneRowTexts == { RowValid }

\* The half-score page mounted on the collection whose only record was
\* stored as 02/21/26.
InitIds ==
    /\ Init /\ page = "halfs"
    /\ db.records = { WithDate(LegacyRecords(page)[1], "02/21/26") }

NextIds ==
    \/ \E t \in OneRowTexts : SetImportText(t)
    \/ HandleImport
    \/ ClickConfirm
    \/ \E keys \in (SUBSET {r.id : r \in matches}) \ {{}} : SetSelectedRows(keys)
    \/ ClickDelete
    \/ ClickClearAll
    \/ ClickNormalizeDates
    \/ \E r \in matches : OpenDateEditor(r)
    \/ ClickDateEditOk
    \/ \E i \in Slots :
          \/ ServeOk(i)
          \/ ServeFail(i)
          \/ LoadThen(i)
          \/ LoadCatch(i)
          \/ HandlePreviewImportThen(i)
          \/ HandlePreviewImportCatch(i)
          \/ HandleImportConfirmedThen(i)
          \/ HandleImportConfirmedCatch(i)
          \/ HandleDeleteThen(i)
          \/ HandleDeleteCatch(i)
          \/ ClearAllThen(i)
          \/ ClearAllCatch(i)
          \/ NormalizeDatesThen(i)
          \/ NormalizeDatesCatch(i)
          \/ SaveDateEditThen(i)
          \/ SaveDateEditCatch(i)

\* The half-score page: everything that writes to the collection.
SpecIds == InitIds /\ [][NextIds]_vars

\* The text of two valid rows and a short one.
CommitTexts == { RowShort \o << NL >> \o RowValid \o << NL, SP, NL >> \o RowPadded }

\* The half-score page mounted on the empty collection.
InitCommits == Init /\ page = "halfs" /\ db = [records |-> {}, nextId |-> 1]

\* A commit is served record by record; everything else in one step.  A
\* request fails as a whole, before anything of it is stored.
NextCommits ==
    \/ \E t \in CommitTexts : SetImportText(t)
    \/ HandleImport
    \/ ClickConfirm
    \/ \E t \in CommitTexts : PeerCommit(t)
    \/ \E i \in Slots :
          \/ calls[i].kind \notin {"import", "peerImport"} /\ ServeOk(i)
          \/ calls[i].res = << >> /\ ServeFail(i)
          \/ CommitRecord(i)
          \/ CommitFinish(i)
          \/ PeerAnswered(i)
          \/ LoadThen(i)
          \/ LoadCatch(i)
          \/ HandlePreviewImportThen(i)
          \/ HandlePreviewImportCatch(i)
          \/ HandleImportConfirmedThen(i)
          \/ HandleImportConfirmedCatch(i)

\* The half-score page and another client committing at the same time.
SpecCommits == InitCommits /\ [][NextCommits]_vars

NextTournament ==
    \/ OpenMerge
    \/ SetMergeSources(tournaments)
    \/ \E t \in { << SP >>, << SP, "EL", SP >> } : SetMergeTarget(t)
    \/ ClickMergeOk
    \/ OpenReplace
    \/ \E f \in FindInputs : SetReplaceOld(f)
    \/ ClickReplaceOk
    \/ \E req \in PeerRequests(page) : PeerSend(req)
    \/ \E i \in Slots :
          \/ ServeOk(i)
          \/ ServeFail(i)
          \/ PeerAnswered(i)
          \/ LoadThen(i)
          \/ LoadCatch(i)
          \/ RunMergeTournamentsThen(i)
          \/ RunMergeTournamentsCatch(i)
          \/ RunReplaceThen(i)
          \/ RunReplaceCatch(i)

\* The half-score page merging and replacing while another client commits,
\* edits and deletes.
SpecTournament == InitHalfs /\ [][NextTournament]_vars

\* Either base page mounted on a collection with room for a commit.
InitBlank ==
    /\ Init /\ db.nextId <= MaxId
    /\ \/ page = "halfs" /\ db \in InitialDbs(page)
       \/ page = "cyber" /\ db \in LegacyDbs(page)

NextBlank ==
    \/ page = "halfs" /\ NextImport
    \/ \E t \in CyberTexts : page = "cyber" /\ SetImportText(t)
    \/ ClickCyberImport
    \/ \E i \in Slots :
          \/ page = "cyber" /\ ServeOk(i)
          \/ page = "cyber" /\ ServeFail(i)
          \/ page = "cyber" /\ LoadThen(i)
          \/ page = "cyber" /\ LoadCatch(i)
          \/ CyberHandleImportThen(i)
          \/ CyberHandleImportCatch(i)

\* The import controls of both base pages.
SpecBlank == InitBlank /\ [][NextBlank]_vars

InitBulk == Init /\ db \in BulkDbs(page)

\* A bulk correction is served as a scan and a write; everything else in
\* one step.  A request fails as a whole, before anything of it is written.
NextBulk ==
    \/ ClickNormalizeDates
    \/ \E req \in BulkRequests(page) : PeerSend(req)
    \/ \E i \in Slots :
          \/ calls[i].kind = "load" /\ ServeOk(i)
          \/ ServeFail(i)
          \/ BulkScan(i)
          \/ BulkWrite(i)
          \/ PeerAnswered(i)
          \/ LoadThen(i)
          \/ LoadCatch(i)
          \/ NormalizeDatesThen(i)
          \/ NormalizeDatesCatch(i)

\* The half-score page normalizing dates while another client runs bulk
\* corrections of the same collection.
SpecBulk == InitBulk /\ [][NextBulk]_vars

InitLive == Init /\ page = "live"

NextLive ==
    \/ \E t \in LiveTexts : SetLiveImportText(t)
    \/ LiveHandleImport
    \/ \E i \in Slots :
          \/ ServeOk(i)
          \/ ServeFail(i)
          \/ LiveAddThen(i)
          \/ LiveAddCatch(i)
          \/ LoadMatchesThen(i)
          \/ LoadMatchesCatch(i)

\* The live page: pasting lines.
SpecLive == InitLive /\ [][NextLive]_vars

\* ------------------------------------------------------------------ claims

\* The lines of a text that hold something besides whitespace.
NonBlankLines(text) ==
    LET lines == Split(text, NL)
    IN {i \in 1..Len(lines) : \E j \in 1..Len(lines[i]) : ~IsWs(lines[i][j])}

\* The lines of a text whose row the Row Validator accepts.
AcceptedLines(text) ==
    LET lines == Split(text, NL)
    IN {i \in NonBlankLines(text) : ValidateRow(Cells(lines[i])) = "ok"}

\* This step is the backend answering call i, of the given kind, with 2xx.
ServedOk(i, kind) ==
    /\ calls[i].kind = kind /\ calls[i].phase = "sent"
    /\ calls'[i].kind = kind /\ calls'[i].phase = "ok"

\* This step is the page handling the 2xx response of call i.
Handled(i, kind) ==
    /\ calls[i].kind = kind /\ calls[i].phase = "ok"
    /\ calls'[i] # calls[i]

Ids(records) == {r.id : r \in records}

\* The Row Validator's rules, read off a stored half-score record.
SatisfiesRowRules(r) ==
    /\ r.tournament # << >> /\ r.team_home # << >> /\ r.team_away # << >>
    /\ Len(r.date) = 1 /\ r.date[1] \in DOMAIN DateLex
    /\ DateLex[r.date[1]].sep = "." /\ DateLex[r.date[1]].last4
    /\ ValidDMY(DateLex[r.date[1]].a, DateLex[r.date[1]].b, DateLex[r.date[1]].c)
    /\ \A c \in (DOMAIN r) \ (TextColumns \cup {"id"}) : r[c] >= 0

\* The rows a commit step inserted, in id order, without their ids.
InsertedRows(before, after) ==
    [j \in 1..(after.nextId - before.nextId) |->
        WithoutId(CHOOSE r \in after.records : r.id = before.nextId + j - 1)]

\* C1: commit is fail-soft per row.  When the backend answers a commit of a
\* text with n non-blank lines of which k validate, exactly k records are
\* added and none removed, the response has imported = k and n - k errors;
\* a commit is never refused because some rows fail, and the page reports it
\* as a success (with a warning counting the failed rows), never as an error.
C1_ServerStep(i) ==
    LET t == calls[i].closure.text
        n == Cardinality(NonBlankLines(t))
        k == Cardinality(AcceptedLines(t))
        data == calls'[i].res[1]
    IN /\ db.records \subseteq db'.records
       /\ Cardinality(db'.records \ db.records) = k
       /\ data.imported = k
       /\ Len(data.errors) = n - k

C1_PageStep(i) ==
    LET t == calls[i].closure.text
        n == Cardinality(NonBlankLines(t))
        k == Cardinality(AcceptedLines(t))
    IN /\ toasts'[1] = Toast("success", "imported", k)
       /\ \A m \in 1..Len(toasts') : toasts'[m].level # "error"
       /\ n - k > 0 => toasts'[Len(toasts')] = Toast("warning", "rows with errors", n - k)
       /\ previewSourceText' = << >> /\ ~previewOpen'

C1_NotRefused ==
    \A i \in Slots :
        (calls[i].kind = "import" /\ calls[i].phase = "sent"
            /\ ~BlankText(calls[i].closure.text))
        => ServeAll(calls[i].reqs, db).ok

C1_CommitFailSoft ==
    /\ []C1_NotRefused
    /\ [][\A i \in Slots :
            /\ ServedOk(i, "import") => C1_ServerStep(i)
            /\ Handled(i, "import") => C1_PageStep(i)]_vars

\* C1 witness: a commit of a 3-line text with one bad row has been reported
\* as success with 2 imported and 1 error, and both records are stored.
C1_Witness ==
    /\ toasts = << Toast("success", "imported", 2),
                   Toast("warning", "rows with errors", 1) >>
    /\ Cardinality(db.records) = 2

\* A preview report's counts against its text.
CountsAddUp(report, text) ==
    /\ {"parsed_count", "error_count", "parsed_rows", "errors"} \subseteq DOMAIN report
    /\ report.parsed_count + report.error_count = Cardinality(NonBlankLines(text))
    /\ report.parsed_count = Len(report.parsed_rows)
    /\ report.error_count = Len(report.errors)

\* C2: preview classifies every non-blank line exactly once: in every
\* preview response, and in the report the page holds for previewSourceText,
\* parsed_count + error_count is the number of non-blank lines of the text,
\* parsed_count = |parsed_rows| and error_count = |errors|.
C2_PreviewCounts ==
    /\ \A i \in Slots :
          (calls[i].kind = "preview" /\ calls[i].phase = "ok")
          => CountsAddUp(calls[i].res[1], calls[i].closure.text)
    /\ CountsAddUp(previewData, previewSourceText)

\* C2 witness: the page shows the preview of a text with a blank line in
\* it: 3 non-blank lines, 2 parsed, 1 error.
C2_Witness ==
    /\ previewOpen
    /\ Len(Split(previewSourceText, NL)) = 4
    /\ previewData.parsed_count = 2 /\ previewData.error_count = 1

\* C3: when the backend answers a commit, every record stored before is
\* still there unchanged, and what is added is exactly `imported` records
\* (as many as the text has valid rows), with pairwise distinct ids that no
\* stored record has and that were never handed out, each satisfying the
\* Row Validator's rules.
C3_Step(i) ==
    LET new == db'.records \ db.records
    IN /\ db.records \subseteq db'.records
       /\ Cardinality(new) = PropNum(calls'[i].res[1], "imported")
       /\ Cardinality(new) = Cardinality(AcceptedLines(calls[i].closure.text))
       /\ Cardinality(Ids(new)) = Cardinality(new)
       /\ Ids(new) \cap Ids(db.records) = {}
       /\ \A r \in new : r.id >= db.nextId /\ r.id < db'.nextId
       /\ \A r \in new : SatisfiesRowRules(r)

C3_CommitAddsImported ==
    [][\A i \in Slots : ServedOk(i, "import") => C3_Step(i)]_vars

\* C3 witness: a commit on a non-empty collection has been answered; the
\* old record is still stored beside the new one.
C3_Witness ==
    \E i \in Slots :
        /\ calls[i].kind = "import" /\ calls[i].phase = "ok"
        /\ calls[i].res[1].imported = 1
        /\ Ids(db.records) = {1, 2}
        /\ HalfRecord(1, TournELW, << "Real", "Madrid" >>) \in db.records

\* The preview reports the page or a resolved call holds for text t, other
\* than call i's.
HeldPreviews(i, t) ==
    {calls[j].res[1] : j \in {j \in Slots \ {i} :
                                 /\ calls[j].kind = "preview" /\ calls[j].phase = "ok"
                                 /\ calls[j].closure.text = t}}
    \cup (IF previewSourceText = t THEN {previewData} ELSE {})

\* C4: preview is a dry run.  The backend answering a preview leaves the
\* collection as it was, and its parsed_rows and errors equal those of every
\* earlier preview of the same text still held, whatever ran in between.
C4_Step(i) ==
    /\ db' = db
    /\ \A held \in HeldPreviews(i, calls[i].closure.text) :
          /\ calls'[i].res[1].parsed_rows = held.parsed_rows
          /\ calls'[i].res[1].errors = held.errors

C4_PreviewIsPure ==
    [][\A i \in Slots : ServedOk(i, "preview") => C4_Step(i)]_vars

\* C4 witness: a second preview of the text the page already holds a
\* preview of has been answered after a commit was answered in between.
C4_Witness ==
    \E i, j \in Slots :
        /\ calls[i].kind = "preview" /\ calls[i].phase = "ok"
        /\ calls[i].closure.text = previewSourceText
        /\ previewData.parsed_count > 0
        /\ calls[j].kind = "import" /\ calls[j].phase = "ok"

\* C6: commit re-parses its text with the logic of preview.  When the
\* backend answers a commit of text t, the rows it stores (in order, ids
\* aside) and the errors it returns are the parsed_rows and errors of every
\* preview of t that is held, whichever other previews ran before.
C6_Step(i) ==
    \A held \in HeldPreviews(i, calls[i].closure.text) :
        /\ InsertedRows(db, db') = held.parsed_rows
        /\ calls'[i].res[1].errors = held.errors

C6_CommitMatchesPreview ==
    [][\A i \in Slots : ServedOk(i, "import") => C6_Step(i)]_vars

\* C6 witness: a commit of the previewed text has been answered while the
\* page still holds that preview (2 rows, 1 error), after the text box was
\* changed to another text.
C6_Witness ==
    \E i \in Slots :
        /\ calls[i].kind = "import" /\ calls[i].phase = "ok"
        /\ calls[i].closure.text = previewSourceText
        /\ importText # previewSourceText
        /\ previewData.parsed_count = 2 /\ previewData.error_count = 1
        /\ calls[i].res[1].imported = 2

\* This step ends a run of the live page's handleImport in slot i.
LiveRunEnds(i) ==
    /\ calls[i].kind \in {"idle", "addLive"}
    /\ calls'[i].kind = "loadMatches"

\* The lines of the run that slot i holds or, when it holds none, of the
\* run the click starts.
LiveLinesOf(i) ==
    IF calls[i].kind = "addLive" THEN calls[i].closure.lines
    ELSE Split(Trim(importText), NL)

\* The non-blank lines with fewer cells than the live schema's minimum.
LiveShortLines(lines) ==
    {k \in 1..Len(lines) :
        /\ \E j \in 1..Len(lines[k]) : ~IsWs(lines[k][j])
        /\ Len(Cells(lines[k])) < LiveMinCells}

\* Every valid row of a paste is committed whatever its neighbours are: the
\* loop posts each line of at least 3 cells, in order, passing over none,
\* and the answered post stores that line's record.
C5_SiblingsStep(i) ==
    /\ ServedOk(i, "addLive") =>
          /\ db.records \subseteq db'.records
          /\ db'.records \ db.records =
                {WithId(LiveMatchOf(Cells(calls[i].closure.lines[calls[i].closure.line])),
                        db.nextId)}
    /\ (calls[i].kind \in {"idle", "addLive"} /\ calls'[i].kind = "addLive"
            /\ (calls[i].kind = "addLive" => calls[i].phase \in {"ok", "fail"})) =>
          /\ calls'[i].closure.lines = LiveLinesOf(i)
          /\ LiveSendable(LiveLinesOf(i),
                          IF calls[i].kind = "addLive" THEN calls[i].closure.line + 1
                          ELSE 1)
                \cap 1..(calls'[i].closure.line - 1) = {}
    /\ LiveRunEnds(i) =>
          LiveSendable(LiveLinesOf(i),
                       IF calls[i].kind = "addLive" THEN calls[i].closure.line + 1
                       ELSE 1) = {}

C5_SiblingsCommitted ==
    [][\A i \in Slots : C5_SiblingsStep(i)]_vars

\* A row with too few cells is rejected with its reason: when the run ends,
\* the page's messages name "too few columns" if the paste had such a row.
C5_ShortStep(i) ==
    (LiveRunEnds(i) /\ LiveShortLines(LiveLinesOf(i)) # {}) =>
        \E m \in 1..Len(toasts') : toasts'[m].text = "too few columns"

\* C5: the outcome of each row depends only on that row: a row with fewer
\* cells than the schema minimum is rejected with "too few columns", and
\* every valid row of the same paste, before or after it, is still
\* committed.
C5_RowOutcomes ==
    [][\A i \in Slots : C5_SiblingsStep(i) /\ C5_ShortStep(i)]_vars

\* This step is the backend failing call i, of the given kind.
ServedFail(i, kind) ==
    /\ calls[i].kind = kind /\ calls[i].phase = "sent"
    /\ calls'[i].kind = kind /\ calls'[i].phase = "fail"

\* The stored record with the given id.
RecordOf(records, id) == CHOOSE r \in records : r.id = id

\* C7: Tournament Merge never deletes or duplicates records.  When the
\* backend answers a merge (whatever its sources: containing the target, or
\* matching nothing), the set of record ids and the number of records are
\* the same before and after, no id is handed out, and a record differs from
\* its earlier self in the tournament field at most; a merge that fails
\* changes nothing.
C7_Step(i) ==
    /\ Ids(db'.records) = Ids(db.records)
    /\ Cardinality(db'.records) = Cardinality(db.records)
    /\ db'.nextId = db.nextId
    /\ \A r \in db.records :
          \A q \in db'.records :
              q.id = r.id =>
                  /\ DOMAIN q = DOMAIN r
                  /\ \A c \in (DOMAIN r) \ {"tournament"} : q[c] = r[c]

C7_MergeKeepsRecords ==
    [][\A i \in Slots :
          /\ ServedOk(i, "merge") => C7_Step(i)
          /\ ServedFail(i, "merge") => db' = db]_vars

\* C7 witness: a merge whose source no stored record carries any more (the
\* page's tournament list was stale) has been answered: 0 updated, the three
\* records still stored.
C7_Witness ==
    \E i \in Slots :
        /\ calls[i].kind = "merge" /\ calls[i].phase = "ok"
        /\ calls[i].res[1].updated = 0
        /\ Ids(db.records) = {1, 2, 4}
        /\ Cardinality(db.records) = 3

\* C8: when the backend answers the merge the page sent for the selected
\* sources and the typed target, every record whose tournament was among the
\* sources carries the (trimmed) target, every other record is unchanged,
\* and updated is the number of records whose tournament was among the
\* sources, those that already carried the target included; the page then
\* reports that number.
C8_ServerStep(i) ==
    LET sources == calls[i].closure.sources
        target == Trim(calls[i].closure.target)
        hit == {r \in db.records : r.tournament \in sources}
    IN /\ \A r \in hit : [r EXCEPT !.tournament = target] \in db'.records
       /\ \A r \in db.records \ hit : r \in db'.records
       /\ calls'[i].res[1].updated = Cardinality(hit)

C8_PageStep(i) ==
    /\ toasts' = << Toast("success", "merged", calls[i].res[1].updated) >>
    /\ ~mergeOpen'

WellFormedMerge(req) ==
    /\ req.data.sources # {}
    /\ ~BlankText(req.data.target)

C9_RequestsWellFormed ==
    \A i \in Slots :
        calls[i].kind = "merge" =>
            /\ Len(calls[i].reqs) = 1
            /\ WellFormedMerge(calls[i].reqs[1])

\* A step from a state where the dialog's inputs are unacceptable.
C9_Step ==
    (mergeSources = {} \/ BlankText(mergeTarget)) =>
        /\ \A i \in Slots : calls'[i].kind = "merge" => calls[i].kind = "merge"
        /\ (\A i \in Slots : calls[i].kind # "merge") => db' = db

\* C9: a merge whose source set is empty or whose target is empty or only
\* whitespace is rejected before any mutation: from such inputs no step of
\* the page issues a merge request and no record changes on their account,
\* so that every merge request in flight has a non-empty source set and a
\* non-blank target.
C9_MergeRejectedEarly ==
    /\ []C9_RequestsWellFormed
    /\ [][C9_Step]_vars

\* C9 witness: OK was clicked with sources chosen and a whitespace-only
\* target; the page warned, sent nothing, and the collection is as mounted.
C9_Witness ==
    /\ mergeOpen
    /\ mergeSources # {} /\ mergeTarget = << SP >>
    /\ toasts = << Toast("warning", "enter the target tournament", 0) >>
    /\ \A i \in Slots : calls[i].kind # "merge"
    /\ db \in InitialDbs(page)

C10_SentTournament ==
    \A i \in Slots :
        calls[i].kind = "replace" =>
            LET body == calls[i].reqs[1].data
            IN /\ body.scope = calls[i].closure.scope
               /\ body.scope = "tournament" =>
                      /\ body.tournament # Null
                      /\ body.tournament = calls[i].closure.tournament
               /\ body.scope = "all" => body.tournament = Null

C10_Step(i) ==
    LET body == calls[i].reqs[1].data
    IN body.scope = "tournament" =>
          \A r \in db.records : r.tournament # body.tournament => r \in db'.records

\* C10: a replace with scope "tournament" and tournament T leaves every
\* record whose tournament differs from T unchanged, and the page's request
\* carries the chosen tournament when the scope is "tournament" and none
\* when the scope is "all".
C10_ReplaceScoped ==
    /\ []C10_SentTournament
    /\ [][\A i \in Slots : ServedOk(i, "replace") => C10_Step(i)]_vars

\* C10 witness: a replace of "Real" scoped to "EL (W)" has been answered
\* with 1 record replaced, and the "EL(w)" record still reads "Real".
C10_Witness ==
    \E i \in Slots :
        /\ calls[i].kind = "replace" /\ calls[i].phase = "ok"
        /\ calls[i].reqs[1].data.scope = "tournament"
        /\ calls[i].reqs[1].data.tournament = TournELW
        /\ calls[i].res[1].replaced = 1
        /\ ~Contains(RecordOf(db.records, 1)[ReplaceColumn(page)], << "Real" >>)
        /\ Contains(RecordOf(db.records, 2)[ReplaceColumn(page)], << "Real" >>)

\* A replace request as the page may send it.
WellFormedReplace(req) ==
    /\ ~BlankText(req.data.find)
    /\ req.data.scope = "tournament" => req.data.tournament # Null

C11_RequestsWellFormed ==
    \A i \in Slots :
        calls[i].kind = "replace" =>
            /\ Len(calls[i].reqs) = 1
            /\ WellFormedReplace(calls[i].reqs[1])

\* A step from a state where the dialog's inputs are unacceptable.
C11_Step ==
    (BlankText(replaceOld) \/ (replaceScope = "tournament" /\ replaceTournament = Null)) =>
        /\ \A i \in Slots : calls'[i].kind = "replace" => calls[i].kind = "replace"
        /\ (\A i \in Slots : calls[i].kind # "replace") => db' = db

\* C11: a replace whose find text is empty or only whitespace, or whose
\* scope is "tournament" with no tournament chosen, is rejected as invalid
\* input: from such inputs no step issues a replace request and no record
\* changes, so every replace request in flight has a non-blank find text
\* and, for scope "tournament", a tournament.
C11_ReplaceRejectedEarly ==
    /\ []C11_RequestsWellFormed
    /\ [][C11_Step]_vars

\* C11 witness: OK was clicked with a whitespace-only find text; the page
\* warned, sent nothing, and the collection is as mounted.
C11_Witness ==
    /\ replaceOpen
    /\ replaceOld = << SP >>
    /\ toasts = << Toast("warning", "enter what to replace", 0) >>
    /\ \A i \in Slots : calls[i].kind # "replace"
    /\ db \in InitialDbs(page)

\* The stored dates the Field Coercer resolves are all canonical.
ResolvedDatesCanonical(records) ==
    \A r \in records : ParseDate(r.date) # Null => ParseDate(r.date) = r.date

\* The records of `before` whose date differs in `after`.
DateRewritten(before, after) ==
    {r \in before : RecordOf(after, r.id).date # r.date}

\* C12 (as amended): the Date Normalizer is idempotent.  A run leaves every
\* stored date that the Field Coercer resolves in canonical DD.MM.YYYY form
\* and leaves the dates it does not resolve as they were; a run on a store
\* in that condition (in particular the second of two runs in a row)
\* returns updated = 0 and changes nothing.
C12_Step ==
    \A i \in Slots : ServedOk(i, "normalize") =>
        /\ ResolvedDatesCanonical(db'.records)
        /\ \A r \in db.records : ParseDate(r.date) = Null => r \in db'.records
        /\ ResolvedDatesCanonical(db.records) =>
              /\ calls'[i].res[1].updated = 0
              /\ db' = db

C12_Original_Step ==
    \A i \in Slots : ServedOk(i, "normalize") =>
        /\ \A r \in db'.records : IsCanonicalDate(r.date)
        /\ ResolvedDatesCanonical(db.records) => calls'[i].res[1].updated = 0

C13_Step ==
    \A i \in Slots :
        /\ ServedOk(i, "normalize") =>
              /\ \A r \in db.records : IsCanonicalDate(r.date) => r \in db'.records
              /\ Ids(db'.records) = Ids(db.records)
              /\ Cardinality(db'.records) = Cardinality(db.records)
              /\ db'.nextId = db.nextId
              /\ \A r \in db.records :
                    [RecordOf(db'.records, r.id) EXCEPT !.date = r.date] = r
              /\ calls'[i].res[1].updated =
                    Cardinality(DateRewritten(db.records, db'.records))
        /\ ServedFail(i, "normalize") => db' = db

C13_NormalizerFrame == [][C13_Step]_vars

\* A run has answered updated = 1 on the collection of three records: the
\* canonical record 1 is as it was stored, record 2 was rewritten.
C13_Witness ==
    /\ db.records = { LegacyRecords(page)[1], LegacyRecords(page)[2],
                      WithDate(LegacyRecords(page)[3], "03.04.25") }
    /\ \E i \in Slots :
          /\ calls[i].kind = "normalize" /\ calls[i].phase = "ok"
          /\ calls[i].res[1].updated = 1

\* A 2-digit-year date whose month-first reading is the only valid one.
MonthFirstOnly(date) ==
    /\ Len(date) = 1 /\ date[1] \in DOMAIN DateLex
    /\ ~DateLex[date[1]].last4 /\ ~DateLex[date[1]].first4
    /\ DateLex[date[1]].a <= 12 /\ DateLex[date[1]].b > 12

\* C14: a stored legacy date such as "02/21/26", whose month-first reading
\* is the only valid one, is rewritten by a run of the Date Normalizer to
\* the canonical day-first form ("21.02.2026") and is counted once: updated
\* is the number of such records plus the number of other records rewritten.
C14_Step ==
    \A i \in Slots : ServedOk(i, "normalize") =>
        /\ \A r \in db.records : MonthFirstOnly(r.date) =>
              /\ RecordOf(db'.records, r.id).date =
                    CanonicalWord(DateLex[r.date[1]].b, DateLex[r.date[1]].a,
                                  2000 + DateLex[r.date[1]].c)
              /\ r.date = << "02/21/26" >> =>
                    RecordOf(db'.records, r.id).date = << "21.02.2026" >>
        /\ calls'[i].res[1].updated =
              Cardinality({r \in db.records : MonthFirstOnly(r.date)})
              + Cardinality({r \in DateRewritten(db.records, db'.records) :
                                ~MonthFirstOnly(r.date)})

C14_LegacyMonthFirst == [][C14_Step]_vars

\* The collection whose only record was stored as 02/21/26 holds it as
\* 21.02.2026, and the run has answered updated = 1.
C14_Witness ==
    /\ db.records = { LegacyRecords(page)[1] }
    /\ db \notin LegacyDbs(page)
    /\ \E i \in Slots :
          /\ calls[i].kind = "normalize" /\ calls[i].phase = "ok"
          /\ calls[i].res[1].updated = 1

\* A date in a non-canonical format whose two leading components are both
\* at most 12.
Ambiguous(date) ==
    /\ Len(date) = 1 /\ date[1] \in DOMAIN DateLex
    /\ ~DateLex[date[1]].last4 /\ ~DateLex[date[1]].first4
    /\ DateLex[date[1]].a <= 12 /\ DateLex[date[1]].b <= 12

\* The lines of a text that have the cells of a row and an ambiguous date.
AmbiguousLines(text) ==
    LET lines == Split(text, NL)
    IN {i \in NonBlankLines(text) :
           /\ Len(Cells(lines[i])) >= MinCells
           /\ Ambiguous(Cells(lines[i])[1])}

\* The report says "invalid date" for every ambiguous line of the text.
FlagsAmbiguous(errors, text) ==
    \A l \in AmbiguousLines(text) :
        \E k \in 1..Len(errors) :
            errors[k].line = l /\ errors[k].reason = "invalid date"

\* C15: an ambiguous date is never resolved by the system.  A preview and a
\* commit report the row as "invalid date" and count or insert nothing for
\* it; a run of the Date Normalizer leaves a stored ambiguous date as it is
\* and does not count it; no step at all rewrites a stored ambiguous date,
\* and no record is ever inserted with a date that is not canonical.
C15_Step ==
    /\ \A r \in db.records : Ambiguous(r.date) => r \in db'.records
    /\ \A r \in db'.records \ db.records : IsCanonicalDate(r.date)
    /\ \A i \in Slots :
          /\ ServedOk(i, "preview") =>
                /\ FlagsAmbiguous(calls'[i].res[1].errors, calls[i].closure.text)
                /\ calls'[i].res[1].parsed_count =
                      Cardinality(AcceptedLines(calls[i].closure.text)
                                     \ AmbiguousLines(calls[i].closure.text))
          /\ ServedOk(i, "import") =>
                /\ FlagsAmbiguous(calls'[i].res[1].errors, calls[i].closure.text)
                /\ Cardinality(db'.records \ db.records) =
                      Cardinality(AcceptedLines(calls[i].closure.text)
                                     \ AmbiguousLines(calls[i].closure.text))
          /\ ServedOk(i, "normalize") =>
                calls'[i].res[1].updated =
                   Cardinality({r \in DateRewritten(db.records, db'.records) :
                                   ~Ambiguous(r.date)})

HandledFail(i, kind) ==
    /\ calls[i].kind = kind /\ calls[i].phase = "fail"
    /\ calls'[i] # calls[i]

\* C16: a single-field edit whose value fails coercion is rejected with no
\* mutation.  The backend answers a date edit with 2xx only when the sent
\* value parses as a date, and then stores its canonical form in that
\* record alone; an edit that fails leaves the collection as it was.  The
\* page, on the failure, shows the error and leaves the dialog as it is
\* (open, with the record and the typed value) and starts no reload: the
\* table, the loading flag and the other calls are unchanged.
C16_Step ==
    \A i \in Slots :
        /\ ServedOk(i, "dateEdit") =>
              /\ ParseDate(Trim(calls[i].reqs[1].data.value)) # Null
              /\ db'.records =
                    {IF r.id = calls[i].closure.record.id
                     THEN [r EXCEPT !.date = ParseDate(Trim(calls[i].reqs[1].data.value))]
                     ELSE r : r \in db.records}
        /\ ServedFail(i, "dateEdit") => db' = db
        /\ (calls[i].kind = "dateEdit" /\ calls[i].phase = "sent"
              /\ ParseDate(Trim(calls[i].reqs[1].data.value)) = Null) =>
              calls'[i].phase # "ok"
        /\ HandledFail(i, "dateEdit") =>
              /\ UNCHANGED << db, dateVars, loading, matches, tournaments, stats >>
              /\ calls' = [calls EXCEPT ![i] = IdleCall]
              /\ toasts' = << Toast("error", "date not saved", 0) >>

C16_EditRejected == [][C16_Step]_vars

\* The editor of the record stored as 02/21/26 sent 03.04.25 and the
\* failure was handled: the dialog is open with the typed value, nothing is
\* in flight, the record is as it was stored.
C16_Witness ==
    /\ dateEditOpen
    /\ dateEditValue = << "03.04.25" >>
    /\ "id" \in DOMAIN dateEditRecord
    /\ toasts = << Toast("error", "date not saved", 0) >>
    /\ \A i \in Slots : calls[i].kind = "idle"
    /\ db \in LegacyDbs(page)
    /\ ~loading

\* Every stored id was handed out by the counter, and no two stored records
\* share one.
IdsDistinct ==
    /\ Cardinality(Ids(db.records)) = Cardinality(db.records)
    /\ \A r \in db.records : r.id >= 1 /\ r.id < db.nextId

\* C17: ids are unique, stable and never reused.  In every state the stored
\* records have pairwise distinct ids, all below the counter; in every step
\* (commit, date edit, normalizer run, delete by ids, delete all, or a
\* failure of any of them) the counter does not go back, a record stored
\* under an id before and after is the same record up to its date, and a
\* record stored under an id that was not there before has an id the
\* counter had not reached, so no id once handed out comes back.
C17_Step ==
    /\ db'.nextId >= db.nextId
    /\ \A r \in db.records :
          r.id \in Ids(db'.records) =>
             [RecordOf(db'.records, r.id) EXCEPT !.date = r.date] = r
    /\ \A r \in db'.records :
          r.id \notin Ids(db.records) => r.id >= db.nextId /\ r.id < db'.nextId

C17_IdsStable == []IdsDistinct /\ [][C17_Step]_vars

\* A commit was answered after the collection had been emptied and the
\* table reloaded empty: the new record has id 2, not the freed id 1.
C17_Witness ==
    /\ Ids(db.records) = {2}
    /\ db.nextId = 3
    /\ matches = {}
    /\ \E i \in Slots : calls[i].kind = "import" /\ calls[i].phase = "ok"

\* The commits being served: calls sent to the import route.
Committing(i) ==
    /\ calls[i].kind \in {"import", "peerImport"}
    /\ calls[i].phase = "sent"

\* The ids given so far to the rows of the commits being served are
\* pairwise different, within a commit and between commits, and row j of a
\* commit is stored under the j-th id the commit was given.
CommitsDisjoint ==
    /\ \A i \in Slots : Committing(i) =>
          /\ \A j, k \in 1..Len(calls[i].res) :
                j # k => calls[i].res[j] # calls[i].res[k]
          /\ \A j \in 1..Len(calls[i].res) :
                WithId(ParseText(calls[i].closure.text).parsed[j], calls[i].res[j])
                   \in db.records
    /\ \A i, j \in Slots :
          (i # j /\ Committing(i) /\ Committing(j)) =>
             SeqRange(calls[i].res) \cap SeqRange(calls[j].res) = {}

\* C18: under any interleaving of concurrent commits no two inserted
\* records get the same id and every accepted row of every request is
\* inserted exactly once.  Stored ids are pairwise distinct in every state;
\* every step of a commit adds exactly one record, under an id no record
\* had; and a commit is answered only when each of its accepted rows, and
\* nothing else, has been stored for it under an id of its own.
C18_Step ==
    /\ Cardinality(db'.records) \in
          {Cardinality(db.records), Cardinality(db.records) + 1}
    /\ db.records \subseteq db'.records
    /\ \A r \in db'.records \ db.records : r.id \notin Ids(db.records)
    /\ \A i \in Slots :
          (Committing(i) /\ calls'[i].phase = "ok") =>
             /\ Len(calls[i].res) =
                   Cardinality(AcceptedLines(calls[i].closure.text))
             /\ calls'[i].res[1].imported = Len(calls[i].res)
             /\ db' = db

C18_ConcurrentCommits == [](IdsDistinct /\ CommitsDisjoint) /\ [][C18_Step]_vars

\* Two commits are being served and their rows were stored in turn: the
\* page's commit has ids 1 and 3, the other client's has id 2.
C18_Witness ==
    \E i, j \in Slots :
        /\ calls[i].kind = "import" /\ calls[i].phase = "sent"
        /\ calls[j].kind = "peerImport" /\ calls[j].phase = "sent"
        /\ calls[i].res = << 1, 3 >>
        /\ calls[j].res = << 2 >>
        /\ Cardinality(db.records) = 3

\* No stored record has an empty tournament.
TournamentNonEmpty == \A r \in db.records : r.tournament # << >>

\* C19: every persisted record has a non-empty tournament in every
\* reachable state.  Whatever the page's merge and replace dialogs and
\* another client's commits, tournament edits and deletes do, no stored
\* tournament is null or empty; a merge is answered only if its target is
\* not blank, an edit of a tournament only if the new value is not blank,
\* and a commit stores no row without a tournament.
C19_Step ==
    \A i \in Slots : ServedOk(i, calls[i].kind) =>
        /\ RouteOf(calls[i].reqs[1]) = "merge" =>
              ~BlankText(calls[i].reqs[1].data.target)
        /\ (RouteOf(calls[i].reqs[1]) = "update"
              /\ calls[i].reqs[1].data.field = "tournament") =>
              ~BlankText(calls[i].reqs[1].data.value)
        /\ RouteOf(calls[i].reqs[1]) = "import" =>
              \A r \in db'.records \ db.records : r.tournament # << >>

PressedImport == ClickPreview \/ HandleImport \/ ClickCyberImport

\* The latest handler showed a validation message.
WarningShown == \E k \in 1..Len(toasts) : toasts[k].level = "warning"

\* C20: preview or commit with blank raw text is rejected before any
\* mutation and with a validation message.  A press of a preview or import
\* button while the text box is blank issues no request, stores nothing and
\* shows a warning; and no preview or import request with blank text is
\* ever in flight.
C20_NoBlankRequests ==
    \A i \in Slots :
        calls[i].kind \in {"preview", "import", "cyberImport"} =>
            ~BlankText(calls[i].reqs[1].data.raw_text)

C20_Step ==
    (BlankText(importText) /\ PressedImport) =>
        /\ calls' = calls
        /\ db' = db
        /\ WarningShown'

C20_BlankRejected == []C20_NoBlankRequests /\ [][C20_Step]_vars

\* This step issues the request of a call of the given kind in slot i.
Issued(i, kind) == calls[i].phase = "idle" /\ calls'[i].kind = kind

\* C21: a non-blank text none of whose rows validates is refused as a
\* whole.  Its preview is answered with parsed_count = 0 and one error per
\* non-blank line and stores nothing; the page then warns that there are no
\* valid rows and holds a preview without parsed rows; a commit is issued
\* only while the held preview has parsed rows, so no commit of a text
\* without a valid row is ever sent.
C21_NoEmptyCommit ==
    \A i \in Slots :
        calls[i].kind = "import" =>
            AcceptedLines(calls[i].reqs[1].data.raw_text) # {}

C21_Step ==
    \A i \in Slots :
        /\ (ServedOk(i, "preview") /\ AcceptedLines(calls[i].closure.text) = {}) =>
              /\ db' = db
              /\ calls'[i].res[1].parsed_count = 0
              /\ calls'[i].res[1].error_count =
                     Cardinality(NonBlankLines(calls[i].closure.text))
        /\ (Handled(i, "preview") /\ AcceptedLines(calls[i].closure.text) = {}) =>
              /\ toasts' = << Toast("warning", "no valid rows to import", 0) >>
              /\ PropNum(previewData', "parsed_count") = 0
              /\ db' = db
              /\ \A j \in Slots : ~Issued(j, "import")
        /\ Issued(i, "import") => PropNum(previewData, "parsed_count") # 0

C21_ZeroRowsRejected == []C21_NoEmptyCommit /\ [][C21_Step]_vars

\* C21 witness: the preview of a two-line text without a valid row is held
\* in the open modal, the warning is showing and no commit is under way.
C21_Witness ==
    /\ previewOpen
    /\ previewSourceText = RowNegative \o << NL >> \o RowShort \o << NL >>
    /\ previewData.parsed_count = 0 /\ previewData.error_count = 2
    /\ toasts = << Toast("warning", "no valid rows to import", 0) >>
    /\ \A i \in Slots : calls[i].kind # "import"

\* The planned writes of call i that the collection shows.
ShownWrites(i) ==
    {w \in calls[i].res[1].plan :
        \E r \in db.records : r.id = w.id /\ r[w.field] = w.value}

\* C22: a bulk correction is atomic with respect to the collection.  Every
\* step that changes the collection applies the whole plan of one
\* correction and answers it, so that its writes are never spread over
\* several steps; and whatever a list or another correction's scan reads
\* while a correction is between its scan and its answer shows either all
\* of that correction's planned writes or none of them.
C22_NoPartialState ==
    \A i \in Slots :
        Scanned(i) => ShownWrites(i) \in { {}, calls[i].res[1].plan }

C22_Step ==
    db' # db =>
        \E i \in Slots :
            /\ Scanned(i)
            /\ db' = ApplyWrites(calls[i].res[1].plan, db)
            /\ calls'[i].phase = "ok"

OperationKinds ==
    {"preview", "import", "cyberImport", "delete", "clear", "normalize",
     "replace", "merge", "dateEdit"}

\* The page's handling of the failure of call i reports it: an error
\* message is showing and the operation's busy flag is down.
FailureReported(i) ==
    /\ \E k \in 1..Len(toasts') : toasts'[k].level = "error"
    /\ calls[i].kind = "preview" => ~previewLoading'
    /\ calls[i].kind \in {"import", "cyberImport", "normalize", "replace", "merge"}
          => ~loading'

\* The same for the operations other than clear-all.
C23_OthersReported ==
    [][\A i \in Slots :
          (calls[i].kind \in OperationKinds \ {"clear"} /\ HandledFail(i, calls[i].kind))
              => FailureReported(i)]_vars

\* C23: every store call that fails during an operation ends as an error
\* reported to the user, with the operation's busy flag cleared: the step
\* in which the page takes up the failure of a preview, commit, delete,
\* clear-all, normalize, replace, merge or single-field edit shows an error
\* message and leaves the busy flag of that operation down.
C23_FailuresReported ==
    [][\A i \in Slots :
          (calls[i].kind \in OperationKinds /\ HandledFail(i, calls[i].kind))
              => FailureReported(i)]_vars

\* The lines of a text that are the example row of 8 cells.
ExampleLines(text) ==
    LET lines == Split(text, NL)
    IN {l \in 1..Len(lines) : Cells(lines[l]) = Cells(RowValid)}

\* The record of the example row as the pipeline builds it: the four score
\* cells fill the first four score columns, the columns after them take
\* their default.
IsExampleRecord(r) ==
    /\ r.date = << "21.02.2026" >> /\ r.tournament = << "EL" >>
    /\ r.team_home = << "Real", "Madrid" >> /\ r.team_away = << "Olympiacos" >>
    /\ r.q1_home = 20 /\ r.q1_away = 18 /\ r.q2_home = 22 /\ r.q2_away = 19
    /\ \A c \in {"q3_home", "q3_away", "q4_home", "q4_away", "ot_home", "ot_away"} :
          r[c] = 0

\* The record as the example of the specification has it.
IsExampleRecordAsStated(r) ==
    /\ r.date = << "21.02.2026" >> /\ r.tournament = << "EL" >>
    /\ r.q1_home = 20 /\ r.q4_away = 19

\* The example row is accepted in the report of a text: one parsed row per
\* example line, none of them among the errors.
ExampleAccepted(report, text, IsRecord(_)) ==
    /\ \A e \in 1..Len(report.errors) : report.errors[e].line \notin ExampleLines(text)
    /\ Cardinality({k \in 1..Len(report.parsed_rows) : IsRecord(report.parsed_rows[k])})
          = Cardinality(ExampleLines(text))

\* C25 (as amended): a half-score row with exactly 8 cells is accepted as
\* one record with date 21.02.2026, tournament EL, q1_home = 20 and
\* q2_away = 19 (the fourth score cell), while q3_home to ot_away, the
\* columns whose cells are absent, take the default 0; every preview
\* response reports it so, and a commit of the text stores that record.
C25_Step ==
    \A i \in Slots :
        (ServedOk(i, "import") /\ ExampleLines(calls[i].closure.text) # {}) =>
            \E r \in db'.records \ db.records : IsExampleRecord(r)

C25_PreviewAccepts ==
    \A i \in Slots :
        (calls[i].kind = "preview" /\ calls[i].phase = "ok") =>
            ExampleAccepted(calls[i].res[1], calls[i].closure.text, IsExampleRecord)

PreviewAnswer(text) == Serve(PreviewImport(page, text), db).data

\* C27, its first two parts: the text kept with the preview is the text
\* whose preview response the page holds, whatever the text box holds by
\* then, and a commit request carries exactly that text.
C27_HeldPreview ==
    /\ previewSourceText # << >> => previewData = PreviewAnswer(previewSourceText)
    /\ previewSourceText = << >> => previewData = EmptyPreview
    /\ \A i \in Slots :
          calls[i].kind = "preview" =>
              calls[i].reqs[1].data.raw_text = calls[i].closure.text

C27_SendsHeldText ==
    \A i \in Slots :
        Issued(i, "import") =>
            /\ calls'[i].reqs[1].data.raw_text = previewSourceText
            /\ PropNum(previewData, "parsed_count") # 0

C27_PreviewHeld == []C27_HeldPreview /\ [][C27_SendsHeldText]_vars

\* The commit of a text other than the one in the text box is under way.
C27_EditedSinceWitness ==
    \E i \in Slots :
        /\ calls[i].kind = "import" /\ calls[i].phase = "sent"
        /\ importText # << >>
        /\ importText # calls[i].reqs[1].data.raw_text

\* C27: in the halfs import flow the text kept with the preview is the
\* text whose preview response is held, every commit request sends that
\* text, and a commit is issued only after a successful preview of that
\* text with no successful commit of it in between.
C27_CommitOncePerPreview ==
    [][\A i \in Slots : Issued(i, "import") => ~committedSincePreview]_vars

\* ------------------------------------------- CyberLivePage.jsx: the lines tab

\* Keys localKeyRef may hand out before the model stops adding rows.
MaxKey == 2

\* Number(String(x).replace(',', '.')) on the words of the model, in tenths;
\* a cell of several words, or a word that is not listed, gives NaN, which
\* parseLines turns into null.  A number n is written << n >>, null Null.
NumberOfString(cell) ==
    LET w == IF cell[1] \in DOMAIN CommaToDot THEN CommaToDot[cell[1]] ELSE cell[1]
    IN IF Len(cell) = 1 /\ w \in DOMAIN FloatLex THEN << FloatLex[w] >> ELSE Null

\* Variant: the total is always read from the fourth cell.
ParsedRowOfFourthCell(cells) ==
    [tournament |-> cells[1], team1 |-> cells[2], team2 |-> cells[3],
     total |-> IF Len(cells) >= 4 THEN NumberOfString(cells[4]) ELSE Null,
     calc_temp |-> 0]

\* The row parseLines pushes for a line's cells.
ParsedRowOf(cells) ==
    [tournament |-> cells[1], team1 |-> cells[2], team2 |-> cells[3],
     total |-> IF Len(cells) >= 5 THEN NumberOfString(cells[5])
               ELSE IF Len(cells) >= 4 THEN NumberOfString(cells[4])
               ELSE Null,
     calc_temp |-> 0]

\* The body of parseLines' for loop, over the lines that remain.
RECURSIVE ParseLinesFrom(_)
ParseLinesFrom(lines) ==
    IF lines = << >> THEN << >>
    ELSE IF Trim(Head(lines)) = << >> THEN ParseLinesFrom(Tail(lines))
    ELSE IF Len(Cells(Head(lines))) < 3 THEN ParseLinesFrom(Tail(lines))
    ELSE << ParsedRowOf(Cells(Head(lines))) >> \o ParseLinesFrom(Tail(lines))

ParseLines(rawText) == ParseLinesFrom(Split(rawText, NL))

\* makeKey(seed) for the value n of localKeyRef.current.
MakeKey(seed, n) == << seed, n >>

\* [...].map((r) => ({ ...r, key: r.key || makeKey('import') })) over the
\* parsed rows, the first of which takes key n; a parsed row has no id.
RECURSIVE KeyedFrom(_, _)
KeyedFrom(parsed, n) ==
    IF parsed = << >> THEN << >>
    ELSE << [key |-> MakeKey("import", n), id |-> Null,
             tournament |-> Head(parsed).tournament,
             team1 |-> Head(parsed).team1, team2 |-> Head(parsed).team2,
             total |-> Head(parsed).total,
             calc_temp |-> Head(parsed).calc_temp] >>
         \o KeyedFrom(Tail(parsed), n + 1)

\* String.prototype.localeCompare on the tournaments of the model: their
\* collation order.
LocaleOrder == << Null, << "EL" >>, << "NBA" >> >>

LocaleRank(t) == CHOOSE i \in 1..Len(LocaleOrder) : LocaleOrder[i] = t

\* Array.prototype.sort((a, b) => a.tournament.localeCompare(b.tournament)):
\* a stable sort.
RECURSIVE InsertByTournament(_, _)
InsertByTournament(sorted, r) ==
    IF sorted = << >> THEN << r >>
    ELSE IF LocaleRank(r.tournament) < LocaleRank(Head(sorted).tournament)
         THEN << r >> \o sorted
         ELSE << Head(sorted) >> \o InsertByTournament(Tail(sorted), r)

RECURSIVE SortByTournament(_)
SortByTournament(xs) ==
    IF xs = << >> THEN << >>
    ELSE InsertByTournament(SortByTournament(SubSeq(xs, 1, Len(xs) - 1)), xs[Len(xs)])

\* The payload of the calculation effect and of archiveRow for a row.
CalcPayloadOf(r) ==
    [id |-> r.id, tournament |-> r.tournament, team1 |-> r.team1,
     team2 |-> r.team2, total |-> r.total, calc_temp |-> r.calc_temp]

CalcPayload(rs) == [i \in 1..Len(rs) |-> CalcPayloadOf(rs[i])]

\* next[r.key] = calculatedRows[idx] || {} over the rows of the effect.
CalcMapOf(rs, calculatedRows) ==
    { [key |-> rs[i].key,
       calc |-> IF i <= Len(calculatedRows) THEN calculatedRows[i] ELSE Null] :
      i \in 1..Len(rs) }

\* The client's wrappers of the live endpoints.
CyberGetLive == [method |-> "GET", url |-> << "cyber", "live" >>, data |-> Null]

CyberSaveLive(payload) ==
    [method |-> "PUT", url |-> << "cyber", "live" >>, data |-> payload]

CyberArchiveLive(payload) ==
    [method |-> "POST", url |-> << "cyber", "live", "archive" >>, data |-> payload]

CyberGetLiveArchive ==
    [method |-> "GET", url |-> << "cyber", "live", "archive" >>,
     data |-> [limit |-> 5000]]

CyberClearLive == [method |-> "DELETE", url |-> << "cyber", "live" >>, data |-> Null]

\* cyber.calculateLive is called by the page but is not among the wrappers
\* of the client in the sources; it is taken to be one request like them.
CyberCalculateLive(payload) ==
    [method |-> "POST", url |-> << "cyber", "live", "calculate" >>, data |-> payload]

\* The backend of the live endpoints is not among the sources and the
\* specification does not describe it.  Its answers are constrained only as
\* far as the page reads them: the saved rows are listed with their ids, a
\* clear removes them, a save replaces them, the calculation answers one
\* object per payload row, and an archive request reports
\* whether it archived the row and whether it deleted it from the saved
\* rows.

\* What a calculation answers for a payload row: the values the page shows,
\* tagged with the row they were computed from.
CalcOf(p) == [input |-> p, predict |-> << 1605 >>]

\* A saved live row.
LiveRecord(id, tournament, team1, team2) ==
    [id |-> id, tournament |-> tournament, team1 |-> team1, team2 |-> team2,
     total |-> Null, calc_temp |-> 0]

LiveDbs ==
    { [records |-> {}, nextId |-> 1, archive |-> {}],
      [records |-> { LiveRecord(1, << "EL" >>, << "Real", SP, "Madrid" >>, << "Olympiacos" >>) },
       nextId |-> 2, archive |-> {}] }

\* The saved rows a PUT leaves: the payload, with new ids from n on.
RECURSIVE SavedFrom(_, _)
SavedFrom(payload, n) ==
    IF payload = << >> THEN {}
    ELSE { [id |-> n, tournament |-> Head(payload).tournament,
            team1 |-> Head(payload).team1, team2 |-> Head(payload).team2,
            total |-> Head(payload).total,
            calc_temp |-> Head(payload).calc_temp] }
         \cup SavedFrom(Tail(payload), n + 1)

\* The archive's entry for an archived row.
Archived(p) == [tournament |-> p.tournament, team1 |-> p.team1, team2 |-> p.team2]

\* The answers the backend may give to a request of the live page, with the
\* store each leaves.
LiveAnswers(req, d) ==
    IF req.url = << "cyber", "live" >> /\ req.method = "GET"
    THEN { [db |-> d, data |-> SortedById(d.records)] }
    ELSE IF req.url = << "cyber", "live" >> /\ req.method = "DELETE"
    THEN { [db |-> [d EXCEPT !.records = {}], data |-> Null] }
    ELSE IF req.url = << "cyber", "live" >> /\ req.method = "PUT"
    THEN IF d.nextId + Len(req.data) - 1 > MaxId + 1 THEN {}
         ELSE { [db |-> [d EXCEPT !.records = SavedFrom(req.data, d.nextId),
                                  !.nextId = d.nextId + Len(req.data)],
                 data |-> Null] }
    ELSE IF req.url = << "cyber", "live", "calculate" >>
    THEN { [db |-> d, data |-> [i \in 1..Len(req.data) |-> CalcOf(req.data[i])]] }
    ELSE IF req.url = << "cyber", "live", "archive" >> /\ req.method = "POST"
    THEN { [db |-> [d EXCEPT !.archive = d.archive \cup { Archived(req.data) }],
            data |-> [archived |-> TRUE, deleted_from_live |-> 0]],
           [db |-> [d EXCEPT !.archive = d.archive \cup { Archived(req.data) },
                             !.records = {r \in d.records : << r.id >> # req.data.live_row_id}],
            data |-> [archived |-> TRUE, deleted_from_live |-> 1]],
           [db |-> d, data |-> [archived |-> FALSE, deleted_from_live |-> 0]] }
    ELSE { [db |-> d, data |-> d.archive] }

\* The backend answers call i of the live page with 2xx.
LiveServeOk(i) ==
    /\ page = "cyberLive"
    /\ calls[i].phase = "sent"
    /\ \E answer \in LiveAnswers(calls[i].reqs[1], db) :
          /\ db' = answer.db
          /\ calls' = [calls EXCEPT ![i].phase = "ok", ![i].res = << answer.data >>]
    /\ UNCHANGED << page, cyberLiveVars, workerVars, histVars, dateVars, selectedRows,
                    baseVars, importVars, replaceVars, mergeVars, toasts >>

\* The state of the other pages and of the service worker.
offLiveVars == << selectedRows, matches, tournaments, stats, filterTournament,
                  importVars, replaceVars, mergeVars, dateVars, histVars,
                  workerVars >>

RowKeys(rs) == {rs[i].key : i \in 1..Len(rs)}

\* The calculation effect re-runs because rows was set: the cleanup of the
\* previous run sets its `cancelled` and clears its timer, and the new run
\* starts a timer.  (setRows always stores a new array.)
Cancelled(cs) ==
    [i \in Slots |-> IF cs[i].kind = "calc"
                     THEN [cs[i] EXCEPT !.closure.cancelled = TRUE]
                     ELSE cs[i]]

\* TextArea onChange
SetInputText(t) ==
    /\ page = "cyberLive"
    /\ inputText' = t
    /\ toasts' = << >>
    /\ UNCHANGED << page, db, calls, loading, rows, calcMap, calcLoading,
                    archiveLoading, archiveRows, localKeyRef, timer, offLiveVars >>

\* importRows
ImportRows ==
    /\ page = "cyberLive"
    /\ \E parsed \in { ParseLines(inputText) } :
          IF parsed = << >>
          THEN /\ toasts' = << Toast("warning", "no valid rows to import", 0) >>
               /\ UNCHANGED << calls, inputText, rows, localKeyRef, timer >>
          ELSE /\ localKeyRef + Len(parsed) - 1 <= MaxKey
               /\ rows' = SortByTournament(rows \o KeyedFrom(parsed, localKeyRef))
               /\ localKeyRef' = localKeyRef + Len(parsed)
               /\ inputText' = << >>
               /\ toasts' = << Toast("success", "rows added", Len(parsed)) >>
               /\ calls' = Cancelled(calls)
               /\ timer' = TRUE
    /\ UNCHANGED << page, db, loading, calcMap, calcLoading, archiveLoading,
                    archiveRows, offLiveVars >>

\* addManualRow
AddManualRow ==
    /\ page = "cyberLive"
    /\ localKeyRef <= MaxKey
    /\ rows' = Append(rows, [key |-> MakeKey("manual", localKeyRef), id |-> Null,
                             tournament |-> Null, team1 |-> Null, team2 |-> Null,
                             total |-> Null, calc_temp |-> 0])
    /\ localKeyRef' = localKeyRef + 1
    /\ calls' = Cancelled(calls)
    /\ timer' = TRUE
    /\ toasts' = << >>
    /\ UNCHANGED << page, db, loading, inputText, calcMap, calcLoading,
                    archiveLoading, archiveRows, offLiveVars >>

\* What the user may enter into a row's cells.
RowPatches == { [field |-> "calc_temp", value |-> 50] }

\* updateRow(key, patch), from a cell's onChange.  (The table's spinner
\* does not stop the keyboard.)
UpdateRow(key, patch) ==
    /\ page = "cyberLive"
    /\ key \in RowKeys(rows)
    /\ rows' = [i \in 1..Len(rows) |->
                   IF rows[i].key = key
                   THEN [rows[i] EXCEPT ![patch.field] = patch.value]
                   ELSE rows[i]]
    /\ calls' = Cancelled(calls)
    /\ timer' = TRUE
    /\ toasts' = << >>
    /\ UNCHANGED << page, db, loading, inputText, calcMap, calcLoading,
                    archiveLoading, archiveRows, localKeyRef, offLiveVars >>

\* The calculation effect's timer fires: the callback up to its await.
CalcTimerFire ==
    /\ page = "cyberLive"
    /\ timer
    /\ timer' = FALSE
    /\ IF rows = << >>
       THEN /\ calcMap' = {}
            /\ UNCHANGED << calls, calcLoading >>
       ELSE /\ FreeSlots(calls) # {}
            /\ calcLoading' = TRUE
            /\ calls' = [calls EXCEPT ![FreeSlot(calls)] =
                            NewCall("calc", [rows |-> rows, cancelled |-> FALSE],
                                    << CyberCalculateLive(CalcPayload(rows)) >>)]
            /\ UNCHANGED calcMap
    /\ toasts' = << >>
    /\ UNCHANGED << page, db, loading, inputText, rows, archiveLoading,
                    archiveRows, localKeyRef, offLiveVars >>

\* Variant: the callback's continuation does not look at `cancelled`.
CalcThenIgnoringCancelled(i) ==
    /\ calls[i].kind = "calc" /\ calls[i].phase = "ok"
    /\ calcMap' = CalcMapOf(calls[i].closure.rows, calls[i].res[1])
    /\ calcLoading' = FALSE
    /\ calls' = [calls EXCEPT ![i] = IdleCall]
    /\ toasts' = << >>
    /\ UNCHANGED << page, db, loading, inputText, rows, archiveLoading,
                    archiveRows, localKeyRef, timer, offLiveVars >>

\* The callback after its await: the try block and the finally.
CalcThen(i) ==
    /\ calls[i].kind = "calc" /\ calls[i].phase = "ok"
    /\ IF calls[i].closure.cancelled
       THEN UNCHANGED << calcMap, calcLoading >>
       ELSE /\ calcMap' = CalcMapOf(calls[i].closure.rows, calls[i].res[1])
            /\ calcLoading' = FALSE
    /\ calls' = [calls EXCEPT ![i] = IdleCall]
    /\ toasts' = << >>
    /\ UNCHANGED << page, db, loading, inputText, rows, archiveLoading,
                    archiveRows, localKeyRef, timer, offLiveVars >>

\* The callback's catch and finally.
CalcCatch(i) ==
    /\ calls[i].kind = "calc" /\ calls[i].phase = "fail"
    /\ IF calls[i].closure.cancelled
       THEN UNCHANGED << calcMap, calcLoading >>
       ELSE /\ calcMap' = {}
            /\ calcLoading' = FALSE
    /\ calls' = [calls EXCEPT ![i] = IdleCall]
    /\ toasts' = << >>
    /\ UNCHANGED << page, db, loading, inputText, rows, archiveLoading,
                    archiveRows, localKeyRef, timer, offLiveVars >>

\* loadSaved up to its await.
LoadSaved ==
    /\ page = "cyberLive"
    /\ FreeSlots(calls) # {}
    /\ loading' = TRUE
    /\ calls' = [calls EXCEPT ![FreeSlot(calls)] =
                    NewCall("loadSaved", Null, << CyberGetLive >>)]
    /\ toasts' = << >>
    /\ UNCHANGED << page, db, cyberLiveVars, offLiveVars >>

\* The reload button (loading = loading).
ClickLoadSaved == ~loading /\ LoadSaved

\* The rows loadSaved prepares from the saved rows (a row's id n is written
\* << n >>, null Null).
PreparedRows(data) ==
    [i \in 1..Len(data) |->
        [key |-> << "db", data[i].id >>, id |-> << data[i].id >>,
         tournament |-> data[i].tournament, team1 |-> data[i].team1,
         team2 |-> data[i].team2, total |-> data[i].total,
         calc_temp |-> data[i].calc_temp]]

LoadSavedThen(i) ==
    /\ calls[i].kind = "loadSaved" /\ calls[i].phase = "ok"
    /\ rows' = PreparedRows(calls[i].res[1])
    /\ loading' = FALSE
    /\ calls' = [Cancelled(calls) EXCEPT ![i] = IdleCall]
    /\ timer' = TRUE
    /\ toasts' = << >>
    /\ UNCHANGED << page, db, inputText, calcMap, calcLoading, archiveLoading,
                    archiveRows, localKeyRef, offLiveVars >>

LoadSavedCatch(i) ==
    /\ calls[i].kind = "loadSaved" /\ calls[i].phase = "fail"
    /\ loading' = FALSE
    /\ calls' = [calls EXCEPT ![i] = IdleCall]
    /\ toasts' = << Toast("error", "live load failed", 0) >>
    /\ UNCHANGED << page, db, cyberLiveVars, offLiveVars >>

\* calcMap[r.key]?.predict ?? null
PredictOf(map, key) ==
    LET hits == {e \in map : e.key = key /\ e.calc # Null}
    IN IF hits = {} THEN Null ELSE (CHOOSE e \in hits : TRUE).calc.predict

\* The payload of saveRows.
SavePayload(rs, map) ==
    [i \in 1..Len(rs) |->
        [tournament |-> rs[i].tournament, team1 |-> rs[i].team1,
         team2 |-> rs[i].team2,
         total |-> IF rs[i].total = Null THEN PredictOf(map, rs[i].key)
                   ELSE rs[i].total,
         calc_temp |-> rs[i].calc_temp]]

\* saveRows up to its await, from the save button (loading = loading).
SaveRows ==
    /\ page = "cyberLive"
    /\ ~loading
    /\ FreeSlots(calls) # {}
    /\ loading' = TRUE
    /\ calls' = [calls EXCEPT ![FreeSlot(calls)] =
                    NewCall("saveLive", Null,
                            << CyberSaveLive(SavePayload(rows, calcMap)) >>)]
    /\ toasts' = << >>
    /\ UNCHANGED << page, db, cyberLiveVars, offLiveVars >>

\* saveRows after its await; it ends by entering loadSaved().
SaveRowsThen(i) ==
    /\ calls[i].kind = "saveLive" /\ calls[i].phase = "ok"
    /\ toasts' = << Toast("success", "live saved", 0) >>
    /\ loading' = TRUE
    /\ calls' = [calls EXCEPT ![i] = NewCall("loadSaved", Null, << CyberGetLive >>)]
    /\ UNCHANGED << page, db, cyberLiveVars, offLiveVars >>

SaveRowsCatch(i) ==
    /\ calls[i].kind = "saveLive" /\ calls[i].phase = "fail"
    /\ toasts' = << Toast("error", "save failed", 0) >>
    /\ loading' = FALSE
    /\ calls' = [calls EXCEPT ![i] = IdleCall]
    /\ UNCHANGED << page, db, cyberLiveVars, offLiveVars >>

\* clearRows up to its await, from the Popconfirm.
ClearRows ==
    /\ page = "cyberLive"
    /\ FreeSlots(calls) # {}
    /\ loading' = TRUE
    /\ calls' = [calls EXCEPT ![FreeSlot(calls)] =
                    NewCall("clearLive", Null, << CyberClearLive >>)]
    /\ toasts' = << >>
    /\ UNCHANGED << page, db, cyberLiveVars, offLiveVars >>

ClearRowsThen(i) ==
    /\ calls[i].kind = "clearLive" /\ calls[i].phase = "ok"
    /\ rows' = << >>
    /\ calcMap' = {}
    /\ toasts' = << Toast("success", "live cleared", 0) >>
    /\ loading' = FALSE
    /\ calls' = [Cancelled(calls) EXCEPT ![i] = IdleCall]
    /\ timer' = TRUE
    /\ UNCHANGED << page, db, inputText, calcLoading, archiveLoading,
                    archiveRows, localKeyRef, offLiveVars >>

ClearRowsCatch(i) ==
    /\ calls[i].kind = "clearLive" /\ calls[i].phase = "fail"
    /\ toasts' = << Toast("error", "clear failed", 0) >>
    /\ loading' = FALSE
    /\ calls' = [calls EXCEPT ![i] = IdleCall]
    /\ UNCHANGED << page, db, cyberLiveVars, offLiveVars >>

\* hasCalcTemp on the numbers of the model.
HasCalcTemp(v) == v # 0

\* The row of rs with the given key.
RowOf(rs, key) == rs[CHOOSE i \in 1..Len(rs) : rs[i].key = key]

\* The payload of archiveRow, as far as the backend of the model reads it.
ArchivePayload(r) ==
    [live_row_id |-> r.id, tournament |-> r.tournament, team1 |-> r.team1,
     team2 |-> r.team2, total |-> r.total, calc_temp |-> r.calc_temp]

\* archiveRow(row) up to its await.
ArchiveRow(key) ==
    IF ~HasCalcTemp(RowOf(rows, key).calc_temp)
    THEN /\ toasts' = << Toast("warning", "no CalcTEMP", 0) >>
         /\ UNCHANGED << page, db, calls, loading, cyberLiveVars, offLiveVars >>
    ELSE /\ FreeSlots(calls) # {}
         /\ calls' = [calls EXCEPT ![FreeSlot(calls)] =
                         NewCall("archiveLive", [key |-> key],
                                 << CyberArchiveLive(ArchivePayload(RowOf(rows, key))) >>)]
         /\ toasts' = << >>
         /\ UNCHANGED << page, db, loading, cyberLiveVars, offLiveVars >>

\* The archive button of a row (disabled without CalcTEMP).
ClickArchive(key) ==
    /\ page = "cyberLive"
    /\ key \in RowKeys(rows)
    /\ HasCalcTemp(RowOf(rows, key).calc_temp)
    /\ ArchiveRow(key)

\* rows.filter((r) => r.key !== key)
RECURSIVE WithoutKey(_, _)
WithoutKey(rs, key) ==
    IF rs = << >> THEN << >>
    ELSE IF Head(rs).key = key THEN WithoutKey(Tail(rs), key)
    ELSE << Head(rs) >> \o WithoutKey(Tail(rs), key)

\* archiveRow after its await, up to the await of loadArchive() or through
\* the end of the handler.
ArchiveRowThen(i) ==
    /\ calls[i].kind = "archiveLive" /\ calls[i].phase = "ok"
    /\ \E cs \in { IF calls[i].res[1].deleted_from_live > 0
                   THEN Cancelled(calls) ELSE calls } :
          IF calls[i].res[1].archived
          THEN /\ calls' = [cs EXCEPT ![i] =
                               NewCall("archiveReload", Null, << CyberGetLiveArchive >>)]
               /\ archiveLoading' = TRUE
               /\ toasts' = << >>
          ELSE /\ calls' = [cs EXCEPT ![i] = IdleCall]
               /\ toasts' = << Toast("warning", "not archived", 0) >>
               /\ UNCHANGED archiveLoading
    /\ IF calls[i].res[1].deleted_from_live > 0
       THEN /\ rows' = WithoutKey(rows, calls[i].closure.key)
            /\ timer' = TRUE
       ELSE UNCHANGED << rows, timer >>
    /\ UNCHANGED << page, db, loading, inputText, calcMap, calcLoading,
                    archiveRows, localKeyRef, offLiveVars >>

ArchiveRowCatch(i) ==
    /\ calls[i].kind = "archiveLive" /\ calls[i].phase = "fail"
    /\ toasts' = << Toast("error", "archive failed", 0) >>
    /\ calls' = [calls EXCEPT ![i] = IdleCall]
    /\ UNCHANGED << page, db, loading, cyberLiveVars, offLiveVars >>

\* loadArchive after its await, on mount or inside archiveRow, which then
\* reports its success.
LoadArchiveThen(i) ==
    /\ calls[i].kind \in {"loadArchive", "archiveReload"} /\ calls[i].phase = "ok"
    /\ archiveRows' = calls[i].res[1]
    /\ archiveLoading' = FALSE
    /\ toasts' = IF calls[i].kind = "archiveReload"
                 THEN << Toast("success", "archived", 0) >> ELSE << >>
    /\ calls' = [calls EXCEPT ![i] = IdleCall]
    /\ UNCHANGED << page, db, loading, inputText, rows, calcMap, calcLoading,
                    localKeyRef, timer, offLiveVars >>

LoadArchiveCatch(i) ==
    /\ calls[i].kind \in {"loadArchive", "archiveReload"} /\ calls[i].phase = "fail"
    /\ archiveLoading' = FALSE
    /\ toasts' = << Toast("error", "archive load failed", 0) >>
                 \o (IF calls[i].kind = "archiveReload"
                     THEN << Toast("success", "archived", 0) >> ELSE << >>)
    /\ calls' = [calls EXCEPT ![i] = IdleCall]
    /\ UNCHANGED << page, db, loading, inputText, rows, calcMap, calcLoading,
                    archiveRows, localKeyRef, timer, offLiveVars >>

\* What a user may paste into the live page's text box: rows of five, of
\* four (with an empty cell in between) and of two cells.
LiveLineFive == << "NBA", TAB, "Lakers", TAB, "Celtics", TAB, "20", TAB, "2,5" >>
LiveLineFour == << "EL", TAB, "Real", SP, "Madrid", TAB, TAB, "Olympiacos", TAB, "20" >>
LiveLineTwo == << "EL", TAB, "Olympiacos" >>

LiveInputs ==
    { LiveLineFour \o << NL, NL >> \o LiveLineTwo \o << NL >>,
      LiveLineTwo }

\* CyberLivePage mounted, with a text in its text box: loadSaved() and
\* loadArchive() are under way and the calculation effect has set its first
\* timer.
MountedCyberLive(text) ==
    /\ page = "cyberLive"
    /\ db \in LiveDbs
    /\ calls = [i \in Slots |->
                   IF i = 1 THEN NewCall("loadSaved", Null, << CyberGetLive >>)
                   ELSE IF i = 2 THEN NewCall("loadArchive", Null, << CyberGetLiveArchive >>)
                   ELSE IdleCall]
    /\ loading = TRUE
    /\ matches = {}
    /\ tournaments = {}
    /\ stats = Null
    /\ filterTournament = Null
    /\ importText = << >>
    /\ previewOpen = FALSE
    /\ previewLoading = FALSE
    /\ previewSourceText = << >>
    /\ previewData = EmptyPreview
    /\ replaceOpen = FALSE
    /\ replaceOld = << >>
    /\ replaceNew = << >>
    /\ replaceScope = "all"
    /\ replaceTournament = Null
    /\ mergeOpen = FALSE
    /\ mergeSources = {}
    /\ mergeTarget = << >>
    /\ dateEditOpen = FALSE
    /\ dateEditRecord = Null
    /\ dateEditValue = << >>
    /\ selectedRows = {}
    /\ toasts = << >>
    /\ committedSincePreview = FALSE
    /\ inputText = text
    /\ rows = << >>
    /\ calcMap = {}
    /\ calcLoading = FALSE
    /\ archiveLoading = TRUE
    /\ archiveRows = {}
    /\ localKeyRef = 1
    /\ timer = TRUE
    /\ NoWorker

\* The rows of the lines tab and their calculation: a pasted text is
\* imported, rows are added, edited, archived and cleared.
InitCyberLive ==
    /\ MountedCyberLive(LiveLineFive \o << NL >> \o LiveLineTwo)
    /\ db.records = {}

NextCyberLive ==
    \/ ImportRows
    \/ AddManualRow
    \/ \E k \in RowKeys(rows), p \in RowPatches : UpdateRow(k, p)
    \/ CalcTimerFire
    \/ ClearRows
    \/ \E k \in RowKeys(rows) : ClickArchive(k)
    \/ \E i \in Slots :
          \/ LiveServeOk(i)
          \/ ServeFail(i)
          \/ CalcThen(i)
          \/ CalcCatch(i)
          \/ LoadSavedThen(i)
          \/ LoadSavedCatch(i)
          \/ ClearRowsThen(i)
          \/ ClearRowsCatch(i)
          \/ ArchiveRowThen(i)
          \/ ArchiveRowCatch(i)
          \/ LoadArchiveThen(i)
          \/ LoadArchiveCatch(i)

SpecCyberLive == InitCyberLive /\ [][NextCyberLive]_vars

\* The calculation calls whose effect run has not been cleaned up.
LiveCalcs == {i \in Slots : calls[i].kind = "calc" /\ ~calls[i].closure.cancelled}

\* The calculated values of map are those computed from the rows rs.
ComputedFrom(map, rs) ==
    /\ {e.key : e \in map} = RowKeys(rs)
    /\ \A e \in map : e.calc.input = CalcPayloadOf(RowOf(rs, e.key))

\* C28: the calculated values never come from a superseded request.  At
\* most one calculation request is not superseded, and it was issued for
\* the current value of rows; a step that puts calculated values into
\* calcMap is the handling of the answer to that request and stores the
\* values computed from the current rows, every other change of calcMap
\* empties it; and the answer to, or the failure of, a request issued for an
\* earlier value of rows is dropped, leaving calcMap and calcLoading as they
\* were, whichever answer arrives first.
C28_CurrentRequest ==
    /\ Cardinality(LiveCalcs) <= 1
    /\ \A i \in LiveCalcs :
          /\ calls[i].closure.rows = rows
          /\ calls[i].reqs[1].data = CalcPayload(rows)
          /\ ~timer

C28_Step ==
    /\ (calcMap' # calcMap /\ calcMap' # {}) =>
          \E i \in LiveCalcs :
              /\ calls[i].phase = "ok"
              /\ calls'[i] = IdleCall
              /\ rows' = rows
              /\ calcMap' = CalcMapOf(rows, calls[i].res[1])
              /\ ComputedFrom(calcMap', rows)
    /\ \A i \in Slots :
          (/\ calls[i].kind = "calc" /\ calls[i].phase \in {"ok", "fail"}
           /\ calls[i].closure.rows # rows
           /\ calls'[i] = IdleCall) =>
              /\ calcMap' = calcMap
              /\ calcLoading' = calcLoading

C28_NoStaleCalc == []C28_CurrentRequest /\ [][C28_Step]_vars

\* C28 witness: the request for the current rows has been answered and
\* handled first, and the answer to a request for an earlier value of rows
\* is still waiting to be handled.
C28_Witness ==
    /\ calcMap # {}
    /\ ComputedFrom(calcMap, rows)
    /\ \E i \in Slots :
          /\ calls[i].kind = "calc" /\ calls[i].phase = "ok"
          /\ calls[i].closure.cancelled
          /\ calls[i].closure.rows # rows
          /\ calls[i].closure.rows # << >>

\* C29: the calculation busy flag always clears: once no debounce timer is
\* pending and no calculation request is in flight, calcLoading is false.
C29_BusyClears ==
    (~timer /\ \A i \in Slots : calls[i].kind # "calc") => ~calcLoading

\* The lines tab's text box, import, save and reload.
InitLiveImport == MountedCyberLive(<< >>)

NextLiveImport ==
    \/ \E t \in LiveInputs : SetInputText(t)
    \/ ImportRows
    \/ CalcTimerFire
    \/ ClickLoadSaved
    \/ SaveRows
    \/ \E i \in Slots :
          \/ LiveServeOk(i)
          \/ ServeFail(i)
          \/ CalcThen(i)
          \/ CalcCatch(i)
          \/ LoadSavedThen(i)
          \/ LoadSavedCatch(i)
          \/ SaveRowsThen(i)
          \/ SaveRowsCatch(i)
          \/ LoadArchiveThen(i)
          \/ LoadArchiveCatch(i)

SpecLiveImport == InitLiveImport /\ [][NextLiveImport]_vars

\* The count a message with the given text carries, 0 when none is shown.
ToastCount(ts, text) ==
    IF \E k \in 1..Len(ts) : ts[k].text = text
    THEN ts[CHOOSE k \in 1..Len(ts) : ts[k].text = text].n
    ELSE 0

\* The rows the messages report as imported, and as excluded.
ImportedRows(ts) == ToastCount(ts, "imported") + ToastCount(ts, "rows added")
ReportedExclusions(ts) == ToastCount(ts, "rows with errors")

\* The server import accounts for every non-blank line: the page's messages
\* on a commit's answer report the imported rows and the rows with errors,
\* and the two add up to the non-blank lines of the committed text.
C24_ServerStep ==
    \A i \in Slots :
        Handled(i, "import") =>
            ImportedRows(toasts') + ReportedExclusions(toasts') =
                Cardinality(NonBlankLines(calls[i].closure.text))

C24_ServerAccounted == [][C24_ServerStep]_vars

\* C24: every non-blank input line that is not imported is reported to the
\* user: the number of reported exclusions plus the number of imported rows
\* equals the number of non-blank lines, for the server import and for the
\* client-side live import (parseLines / importRows) alike.  (The live
\* page's warning that the text has no valid row at all is taken to report
\* every line of the text.)
C24_LinesAccounted ==
    [][/\ C24_ServerStep
       /\ ImportRows =>
             \/ toasts' = << Toast("warning", "no valid rows to import", 0) >>
             \/ ImportedRows(toasts') + ReportedExclusions(toasts') =
                    Cardinality(NonBlankLines(inputText))]_vars

\* parseLines on its own: the page is mounted with a pasted text of one or
\* two lines, which is imported.
LiveLineThree == << "NBA", TAB, "Lakers", TAB, "Celtics" >>
LiveLineWords == << "EL", TAB, "Olympiacos", TAB, "Real", SP, "Madrid", TAB, "Celtics" >>
LiveLinePadded ==
    << SP, "NBA", SP, TAB, TAB, "Lakers", TAB, SP, TAB, "Celtics", SP, TAB, "2.5", TAB >>

ParseLineSet ==
    { LiveLineFive, LiveLineFour, LiveLineThree, LiveLineTwo, LiveLineWords,
      LiveLinePadded, << SP >>, << >> }

ParseTexts ==
    ParseLineSet \cup { a \o << NL >> \o b : a \in ParseLineSet, b \in ParseLineSet }

InitParse == \E t \in ParseTexts : MountedCyberLive(t)

NextParse == ImportRows

SpecParse == InitParse /\ [][NextParse]_vars

\* A line's pieces between tabs, trimmed; the positions of those that are
\* not empty; the k-th smallest member of a set of positions.
Pieces(line) ==
    LET parts == Split(line, TAB)
    IN [j \in 1..Len(parts) |-> Trim(parts[j])]

NonEmptyAt(line) == {j \in 1..Len(Pieces(line)) : Pieces(line)[j] # << >>}

KthOf(S, k) == CHOOSE j \in S : Cardinality({m \in S : m < j}) = k - 1

\* The k-th non-empty cell of a line.
CellAt(line, k) == Pieces(line)[KthOf(NonEmptyAt(line), k)]

\* The total parseLines is to read off a line: the number written in its
\* fifth non-empty cell when it has five or more, else in its fourth, null
\* when there is no such cell or it is not a number.
ExpectedTotal(line) ==
    LET n == Cardinality(NonEmptyAt(line))
        c == IF n >= 5 THEN CellAt(line, 5)
             ELSE IF n = 4 THEN CellAt(line, 4) ELSE Null
        w == IF c # Null /\ c[1] \in DOMAIN CommaToDot THEN CommaToDot[c[1]]
             ELSE IF c # Null THEN c[1] ELSE ""
    IN IF Len(c) = 1 /\ w \in DOMAIN FloatLex THEN << FloatLex[w] >> ELSE Null

\* The lines of a text that parseLines is to turn into rows.
RowLines(text) ==
    {i \in NonBlankLines(text) :
        Cardinality(NonEmptyAt(Split(text, NL)[i])) >= 3}

\* The row of rs with the given key, without its key and id.
ParsedPart(rs, key) ==
    [f \in {"tournament", "team1", "team2", "total", "calc_temp"} |-> RowOf(rs, key)[f]]

\* C26: tokenizing yields one row per non-blank line, in input order, each
\* row being the line's tab-separated cells trimmed, with the empty ones
\* removed, and nothing for a blank line.  In parseLines a cell after an
\* empty cell therefore moves one position to the left; the lines with three
\* cells or more become the rows, in input order, with tournament, team1 and
\* team2 from the first three cells and the total from the fifth cell when
\* there are five or more, else from the fourth, null when it is absent or
\* not a number; and these are the rows importRows adds.
C26_Cells ==
    LET lines == Split(inputText, NL)
    IN \A i \in 1..Len(lines) :
          /\ Len(Cells(lines[i])) = Cardinality(NonEmptyAt(lines[i]))
          /\ \A k \in 1..Len(Cells(lines[i])) : Cells(lines[i])[k] = CellAt(lines[i], k)
          /\ i \in NonBlankLines(inputText) <=> Cells(lines[i]) # << >>

C26_Step ==
    ImportRows =>
        LET lines == Split(inputText, NL)
            parsed == ParseLines(inputText)
        IN /\ Len(parsed) = Cardinality(RowLines(inputText))
           /\ \A k \in 1..Len(parsed) :
                 LET line == lines[KthOf(RowLines(inputText), k)]
                 IN /\ parsed[k].tournament = CellAt(line, 1)
                    /\ parsed[k].team1 = CellAt(line, 2)
                    /\ parsed[k].team2 = CellAt(line, 3)
                    /\ parsed[k].total = ExpectedTotal(line)
                    /\ parsed[k].calc_temp = 0
                    /\ MakeKey("import", localKeyRef + k - 1) \in RowKeys(rows')
                    /\ ParsedPart(rows', MakeKey("import", localKeyRef + k - 1)) = parsed[k]
           /\ Len(rows') = Len(rows) + Len(parsed)
           /\ \A m \in 1..Len(toasts') : toasts'[m].level # "error"

C26_ParseLines == []C26_Cells /\ [][C26_Step]_vars

\* C26 witness: a five-cell line and a line of four cells with an empty
\* cell before the second team have been imported: one row has its total
\* from the fifth cell, the other its second team from the cell after the
\* empty one and its total from the fourth.
C26_Witness ==
    \E i, j \in 1..Len(rows) :
        /\ rows[i].team1 = << "Lakers" >> /\ rows[i].total = << 25 >>
        /\ rows[j].team2 = << "Olympiacos" >> /\ rows[j].total = << 200 >>

\* ---------------------------------------------------------- service worker

CACHE_NAME == "excel-analyzer-pro-v1"

\* A path is the sequence of its pieces: slashes, dots and the words between.
APP_SHELL ==
    { << "/" >>, << "/", "index", ".", "html" >>,
      << "/", "manifest", ".", "webmanifest" >>,
      << "/", "pwa-192", ".", "svg" >>, << "/", "pwa-512", ".", "svg" >> }

\* self.location.origin
SelfOrigin == "https://app"

\* The request cache.addAll makes of a path of APP_SHELL.
ShellRequest(pathname) ==
    [method |-> "GET", origin |-> SelfOrigin, pathname |-> pathname, mode |-> "cors"]

\* String.prototype.startsWith
StartsWith(str, prefix) ==
    Len(str) >= Len(prefix) /\ SubSeq(str, 1, Len(prefix)) = prefix

ApiPrefix == << "/", "api", "/" >>

\* /\.(?:js|css|svg|png|jpg|jpeg|gif|ico|woff|woff2|json)$/.test(url.pathname)
StaticExtensions ==
    { "js", "css", "svg", "png", "jpg", "jpeg", "gif", "ico", "woff", "woff2", "json" }

IsStaticAsset(pathname) ==
    /\ Len(pathname) >= 2
    /\ pathname[Len(pathname) - 1] = "."
    /\ pathname[Len(pathname)] \in StaticExtensions

\* Variant: the fetch handler without its test of the /api/ prefix.
FetchRouteWithoutApiTest(request) ==
    IF request.method # "GET" THEN "default"
    ELSE IF request.origin # SelfOrigin THEN "default"
    ELSE IF request.mode = "navigate" THEN "navigate"
    ELSE IF ~IsStaticAsset(request.pathname) THEN "default"
    ELSE "asset"

\* What the fetch handler decides before anything asynchronous: "default"
\* when it returns without respondWith, so that the browser handles the
\* request as if there were no worker, "navigate" for the network-first
\* answer of a navigation, "asset" for the cache-first answer of a static
\* asset.
FetchRoute(request) ==
    IF request.method # "GET" THEN "default"
    ELSE IF request.origin # SelfOrigin THEN "default"
    ELSE IF StartsWith(request.pathname, ApiPrefix) THEN "default"
    ELSE IF request.mode = "navigate" THEN "navigate"
    ELSE IF ~IsStaticAsset(request.pathname) THEN "default"
    ELSE "asset"

\* The most fetch events being answered, and the most cache.put calls
\* pending, at one time.
MaxFetches == 2

Bodies == { "build1", "build2" }

\* What the network answers when it answers.
Responses == [ok : BOOLEAN, body : Bodies]

AssetPath == << "/", "assets", "/", "index", ".", "js" >>
ApiJsonPath == << "/", "api", "/", "export", ".", "json" >>

\* The requests of the controlled pages.
FetchRequests ==
    { [method |-> "GET", origin |-> SelfOrigin, pathname |-> AssetPath, mode |-> "no-cors"],
      [method |-> "GET", origin |-> SelfOrigin, pathname |-> << "/", "pwa-192", ".", "svg" >>,
       mode |-> "no-cors"],
      [method |-> "GET", origin |-> SelfOrigin, pathname |-> ApiJsonPath, mode |-> "cors"],
      [method |-> "GET", origin |-> SelfOrigin, pathname |-> ApiJsonPath, mode |-> "navigate"],
      [method |-> "POST", origin |-> SelfOrigin, pathname |-> << "/", "upload", ".", "json" >>,
       mode |-> "cors"],
      [method |-> "GET", origin |-> "https://cdn", pathname |-> << "/", "lib", ".", "js" >>,
       mode |-> "no-cors"],
      [method |-> "GET", origin |-> SelfOrigin, pathname |-> << "/" >>, mode |-> "navigate"],
      [method |-> "GET", origin |-> SelfOrigin, pathname |-> << "/", "cyber" >>, mode |-> "cors"] }

\* A cache is keyed by the URL of the request.
Url(request) == [origin |-> request.origin, pathname |-> request.pathname]

\* caches.match: the responses stored, in any cache, under the request's URL.
Matches(storage, url) ==
    {e.response : e \in {x \in storage.entries : Url(x.request) = url}}

\* cache.put into the cache of the given name, opened (and so created) first.
PutInto(storage, name, request, response) ==
    [keys |-> storage.keys \cup {name},
     entries |->
        {e \in storage.entries : ~(e.cache = name /\ Url(e.request) = Url(request))}
        \cup {[cache |-> name, request |-> request, response |-> response]}]

pageVars == << page, db, calls, baseVars, importVars, replaceVars, mergeVars, dateVars,
               selectedRows, toasts, cyberLiveVars, histVars >>

\* The install handler starts: caches.open(CACHE_NAME) creates the cache and
\* cache.addAll(APP_SHELL) requests the shell; skipWaiting() is called.
Install ==
    /\ swState = "parsed"
    /\ swState' = "installing"
    /\ cacheStorage' = [cacheStorage EXCEPT !.keys = @ \cup {CACHE_NAME}]
    /\ UNCHANGED << pageVars, swDeletes, swFetches, swPuts, swAnswer >>

\* cache.addAll settles: it stores the responses when every one of them is
\* ok, and rejects storing none otherwise, which makes the worker redundant.
InstallDone ==
    /\ swState = "installing"
    /\ \E ok \in BOOLEAN, body \in Bodies :
          IF ok
          THEN /\ swState' = "installed"
               /\ cacheStorage' =
                     [keys |-> cacheStorage.keys \cup {CACHE_NAME},
                      entries |->
                         {e \in cacheStorage.entries :
                             ~(e.cache = CACHE_NAME /\ e.request.origin = SelfOrigin
                               /\ e.request.pathname \in APP_SHELL)}
                         \cup {[cache |-> CACHE_NAME, request |-> ShellRequest(p),
                                response |-> [ok |-> TRUE, body |-> body]] : p \in APP_SHELL}]
          ELSE /\ swState' = "redundant"
               /\ UNCHANGED cacheStorage
    /\ UNCHANGED << pageVars, swDeletes, swFetches, swPuts, swAnswer >>

\* The activate handler starts (skipWaiting lets the installed worker
\* activate at once): caches.keys() gives the names, those other than
\* CACHE_NAME are to be deleted; clients.claim() is called.
Activate ==
    /\ swState = "installed"
    /\ swState' = "activating"
    /\ swDeletes' = cacheStorage.keys \ {CACHE_NAME}
    /\ UNCHANGED << pageVars, cacheStorage, swFetches, swPuts, swAnswer >>

\* caches.delete(key) of the activate handler.
DeleteCache(key) ==
    /\ swState = "activating"
    /\ key \in swDeletes
    /\ cacheStorage' = [keys |-> cacheStorage.keys \ {key},
                        entries |-> {e \in cacheStorage.entries : e.cache # key}]
    /\ swDeletes' = swDeletes \ {key}
    /\ UNCHANGED << pageVars, swState, swFetches, swPuts, swAnswer >>

\* Promise.all of the deletions has settled: the worker is activated and
\* fetch events reach it.
Activated ==
    /\ swState = "activating"
    /\ swDeletes = {}
    /\ swState' = "activated"
    /\ UNCHANGED << pageVars, cacheStorage, swDeletes, swFetches, swPuts, swAnswer >>

\* An answer a page receives for a request.
Answer(request, source, response) ==
    [request |-> request, source |-> source, response |-> response]

\* The fetch handler, up to its first asynchronous call.
FetchEvent(request) ==
    /\ swState = "activated"
    /\ \E route \in { FetchRoute(request) } :
          IF route = "default"
          THEN /\ swAnswer' = Answer(request, "default", Null)
               /\ UNCHANGED swFetches
          ELSE /\ swFetches' = swFetches \cup
                     {[request |-> request,
                       pc |-> IF route = "navigate" THEN "network" ELSE "match",
                       route |-> route, cached |-> Null]}
               /\ Cardinality(swFetches') <= MaxFetches
               /\ UNCHANGED swAnswer
    /\ UNCHANGED << pageVars, swState, cacheStorage, swDeletes, swPuts >>

\* caches.match(request) has settled with `cached`: fetch(request) is
\* started, and the event is answered with `cached` when there is one.
MatchCache(f) ==
    /\ f \in swFetches
    /\ f.pc = "match"
    /\ \E cached \in (IF Matches(cacheStorage, Url(f.request)) = {} THEN {Null}
                      ELSE Matches(cacheStorage, Url(f.request))) :
          /\ swFetches' = (swFetches \ {f})
                            \cup {[f EXCEPT !.pc = "network", !.cached = cached]}
          /\ swAnswer' = IF cached # Null THEN Answer(f.request, "cache", cached)
                         ELSE swAnswer
    /\ UNCHANGED << pageVars, swState, cacheStorage, swDeletes, swPuts >>

\* fetch(request) has settled.  For a static asset an ok response is put,
\* by a call that is not awaited, into CACHE_NAME, and the response answers
\* the event unless `cached` did; a failure gives `cached`.  For a
\* navigation the response answers the event and a failure gives what
\* caches.match('/index.html') finds.
NetworkAnswer(f, failed, response) ==
    /\ f \in swFetches
    /\ f.pc = "network"
    /\ swFetches' = swFetches \ {f}
    /\ IF f.route = "asset"
       THEN /\ swPuts' = IF ~failed /\ response.ok
                         THEN swPuts \cup {[request |-> f.request, response |-> response]}
                         ELSE swPuts
            /\ Cardinality(swPuts') <= MaxFetches
            /\ swAnswer' = IF f.cached # Null THEN swAnswer
                           ELSE IF failed THEN Answer(f.request, "error", Null)
                           ELSE Answer(f.request, "network", response)
       ELSE /\ UNCHANGED swPuts
            /\ IF ~failed
               THEN swAnswer' = Answer(f.request, "network", response)
               ELSE \E found \in
                        (IF Matches(cacheStorage,
                                    Url(ShellRequest(<< "/", "index", ".", "html" >>))) = {}
                         THEN {Null}
                         ELSE Matches(cacheStorage,
                                      Url(ShellRequest(<< "/", "index", ".", "html" >>)))) :
                       swAnswer' = IF found = Null THEN Answer(f.request, "error", Null)
                                   ELSE Answer(f.request, "cache", found)
    /\ UNCHANGED << pageVars, swState, cacheStorage, swDeletes >>

\* caches.open(CACHE_NAME).then((cache) => cache.put(request, cloned)) is done.
PutDone(p) ==
    /\ p \in swPuts
    /\ cacheStorage' = PutInto(cacheStorage, CACHE_NAME, p.request, p.response)
    /\ swPuts' = swPuts \ {p}
    /\ UNCHANGED << pageVars, swState, swDeletes, swFetches, swAnswer >>

\* The caches an earlier version of the worker has left: API data among
\* them.
OldCache == "excel-analyzer-pro-v0"

OldEntries ==
    { [cache |-> OldCache,
       request |-> [method |-> "GET", origin |-> SelfOrigin, pathname |-> ApiJsonPath,
                    mode |-> "cors"],
       response |-> [ok |-> TRUE, body |-> "build1"]],
      [cache |-> OldCache, request |-> ShellRequest(<< "/", "index", ".", "html" >>),
       response |-> [ok |-> TRUE, body |-> "build1"]] }

InitialCaches ==
    { [keys |-> {}, entries |-> {}],
      [keys |-> {OldCache}, entries |-> OldEntries],
      [keys |-> {OldCache, "fonts"}, entries |-> OldEntries] }

InitWorker ==
    /\ PageMounted
    /\ page = "halfs"
    /\ db = [records |-> {}, nextId |-> 1]
    /\ swState = "parsed"
    /\ cacheStorage \in InitialCaches
    /\ swDeletes = {}
    /\ swFetches = {}
    /\ swPuts = {}
    /\ swAnswer = Null

NextWorker ==
    \/ Install
    \/ InstallDone
    \/ Activate
    \/ \E key \in {OldCache, "fonts"} : DeleteCache(key)
    \/ Activated
    \/ \E request \in FetchRequests : FetchEvent(request)
    \/ \E f \in swFetches : MatchCache(f)
    \/ \E f \in swFetches, failed \in BOOLEAN, response \in Responses :
          NetworkAnswer(f, failed, response)
    \/ \E p \in swPuts : PutDone(p)

\* The worker from the fetch of its script on, serving the pages' requests.
SpecWorker == InitWorker /\ [][NextWorker]_vars

\* A request the worker is to leave alone.
Excluded(request) ==
    \/ request.method # "GET"
    \/ request.origin # SelfOrigin
    \/ StartsWith(request.pathname, ApiPrefix)

\* The entries a step adds to the caches.
Added == cacheStorage'.entries \ cacheStorage.entries

C30_LeftAlone ==
    /\ \A f \in swFetches : ~Excluded(f.request)
    /\ \A p \in swPuts : ~Excluded(p.request)
    /\ (swAnswer # Null /\ Excluded(swAnswer.request)) => swAnswer.source = "default"
    /\ swState = "activated" => cacheStorage.keys \subseteq {CACHE_NAME}

C30_Stores ==
    \A e \in Added :
        /\ e.cache = CACHE_NAME
        /\ e.response.ok
        /\ ~Excluded(e.request)
        /\ \/ IsStaticAsset(e.request.pathname)
           \/ swState = "installing" /\ e.request.pathname \in APP_SHELL

\* C30: the service worker never serves or stores API data: a request whose
\* method is not GET, whose origin is not the worker's or whose path starts
\* with /api/ is neither answered from a cache nor has its response put
\* into one; the only responses the worker stores are the app-shell
\* responses fetched at install and ok responses to same-origin static-asset
\* GETs; and once the worker is activated no cache other than CACHE_NAME
\* remains.
C30_NoApiData == []C30_LeftAlone /\ [][C30_Stores]_vars

\* C30 as stated: whatever the worker stores is a response to a request for
\* a static asset.
C30_OnlyStaticStored ==
    [][\A e \in Added : IsStaticAsset(e.request.pathname)]_vars

\* C30 witness: the activated worker has stored the response to a static
\* asset's request and the latest request, one for a path under /api/ that
\* ends in .json, was left to the browser.
C30_Witness ==
    /\ swState = "activated"
    /\ swAnswer # Null
    /\ swAnswer.request.pathname = ApiJsonPath
    /\ swAnswer.source = "default"
    /\ \E e \in cacheStorage.entries :
          e.cache = CACHE_NAME /\ e.request.pathname = AssetPath
====
